---- MODULE Spec2Model ----
(***************************************************************************)
(* TradingView webhook gateway of kek-dex: credential issuance, signature  *)
(* verification, replay window, rate limiting, order policy, audit log.    *)
(*                                                                         *)
(* Time is in milliseconds (Date.now()); payload timestamps in seconds.    *)
(* Strings of the program are TLA+ strings; a JSON value of unknown type   *)
(* is a tagged record (see Num, Str, Undef).                               *)
(***************************************************************************)
EXTENDS Integers, Sequences, FiniteSets, TLC

VARIABLES
    now,          \* wall clock, Date.now()
    ticks,        \* number of clock advances taken so far
    webhooks,     \* table webhooks: id -> row
    rate_limits,  \* table rate_limits: set of rows
    webhook_logs, \* table webhook_logs: sequence of rows, in insertion order
    limits,       \* the RateLimitConfig in force
    proc,         \* one record per request / call in flight: its locals and position
    started,      \* number of requests / calls started so far
    responses     \* sequence of the dashboard API's responses, in order

vars == <<now, ticks, webhooks, rate_limits, webhook_logs, limits, proc, started, responses>>

-----------------------------------------------------------------------------
(* Bounds of the model *)

MaxRequests == 2   \* webhook requests per behaviour
MaxCalls == 3      \* direct checkRateLimit calls per behaviour
MaxTicks == 2      \* clock advances per behaviour
MaxLimit == 2      \* largest per-window limit a configuration is drawn with
MaxAdminOps == 2   \* dashboard API calls per behaviour

(* Program constants *)

ReplayWindowMs == 300000        \* 5 * 60 * 1000
MinuteDurationMs == 60000       \* 60 * 1000
HourDurationMs == 3600000       \* 60 * 60 * 1000
DayDurationMs == 86400000       \* 24 * 60 * 60 * 1000
DefaultMaxOrderSize == 1000
DefaultDailyLimit == 10000
DigestHexLen == 64              \* length of a hex SHA-256 HMAC digest

-----------------------------------------------------------------------------
(* JavaScript values as they arrive in a JSON body *)

Num(n) == [t |-> "num", n |-> n, s |-> ""]
Str(s) == [t |-> "str", n |-> 0, s |-> s]
Undef == [t |-> "undef", n |-> 0, s |-> ""]
NaN == [t |-> "nan", n |-> 0, s |-> ""]

\* JS truthiness: !v is ~Truthy(v)
Truthy(v) == \/ v.t = "num" /\ v.n # 0
             \/ v.t = "str" /\ v.s # ""

\* JS ToNumber for the values the model draws: a non-numeric string and
\* undefined both give NaN
ToNumber(v) == IF v.t = "num" THEN v ELSE NaN

\* a * b
Mul(a, b) == IF ToNumber(a).t = "nan" \/ ToNumber(b).t = "nan"
             THEN NaN
             ELSE Num(ToNumber(a).n * ToNumber(b).n)

\* a || b
OrElse(a, b) == IF Truthy(a) THEN a ELSE b

\* a > n for a number n: false when a is NaN
GreaterThan(a, n) == ToNumber(a).t = "num" /\ ToNumber(a).n > n

\* `${v}`
Render(v) == CASE v.t = "num" -> ToString(v.n)
               [] v.t = "str" -> v.s
               [] v.t = "nan" -> "NaN"
               [] OTHER -> "undefined"

Abs(x) == IF x < 0 THEN -x ELSE x

-----------------------------------------------------------------------------
(* webhookCrypto: credentials, AES-256-GCM, HMAC *)

\* The values crypto.randomBytes can yield for a key / a secret, by index
ApiKeyNames == <<"wh_1", "wh_2">>
SecretNames == <<"whs_1", "whs_2">>
IVs == {1, 2}
MasterKey == 1      \* process.env.WEBHOOK_ENCRYPTION_KEY
CipherModulus == 5  \* size of the toy ciphertext alphabet

SecretIndex(s) == CHOOSE i \in 1..Len(SecretNames) : SecretNames[i] = s

\* A stored text column is either "iv:data:tag" (three parts) or other text
EncText(iv, data, tag) == [parts |-> <<iv, data, tag>>, raw |-> ""]
RawText(s) == [parts |-> <<>>, raw |-> s]
NullText == RawText("")

\* The GCM key stream for (key, iv), never 0 so that data differs from the
\* plaintext, and the authentication tag: an injective encoding of
\* (key, iv, data), i.e. a MAC without collisions
KeyStream(key, iv) == 1 + ((3 * key + iv) % (CipherModulus - 1))
AuthTag(key, iv, data) == 1 + data + CipherModulus * (iv + 10 * key)

\* A variant of encryptApiSecret that encrypts under another key than the
\* one it is given
encryptApiSecret_OtherKey(plainSecret, key, iv) ==
    LET data == (SecretIndex(plainSecret) + KeyStream(key + 1, iv)) % CipherModulus
    IN  EncText(iv, data, AuthTag(key + 1, iv, data))

encryptApiSecret(plainSecret, key, iv) ==
    LET data == (SecretIndex(plainSecret) + KeyStream(key, iv)) % CipherModulus
    IN  EncText(iv, data, AuthTag(key, iv, data))

\* The first bytes of a tag (32, 64, 96 bits and so on)
TagPrefix(tag) == 0 - tag

\* decipher.setAuthTag(authTag) with a decipher created without
\* authTagLength: it takes a tag of any length GCM allows, and final()
\* compares that many bytes of the computed tag
TagAccepted(authTag, computed) ==
    authTag = computed \/ authTag = TagPrefix(computed)

\* decryptApiSecret: [ok |-> FALSE] stands for a thrown error
decryptApiSecret(encryptedData, key) ==
    IF Len(encryptedData.parts) # 3
    THEN [ok |-> FALSE, plain |-> ""]
    ELSE LET iv == encryptedData.parts[1]
             data == encryptedData.parts[2]
             tag == encryptedData.parts[3]
             idx == (data - KeyStream(key, iv)) % CipherModulus
         IN  IF ~TagAccepted(tag, AuthTag(key, iv, data)) \/ idx \notin 1..Len(SecretNames)
             THEN [ok |-> FALSE, plain |-> ""]
             ELSE [ok |-> TRUE, plain |-> SecretNames[idx]]

\* SHA-256 of an API key, hex
hashApiKey(apiKey) ==
    CASE apiKey = "wh_1" -> "sha256(wh_1)"
      [] apiKey = "wh_2" -> "sha256(wh_2)"
      [] OTHER -> "sha256(other)"

generateSecureApiCredentials(k, s, iv) ==
    [apiKey |-> ApiKeyNames[k],
     apiSecret |-> SecretNames[s],
     apiKeyHash |-> hashApiKey(ApiKeyNames[k]),
     encryptedSecret |-> encryptApiSecret(SecretNames[s], MasterKey, iv)]

\* Mutant: the secret itself is put where its hash is stored
generateApiCredentials_PlainSecret(k, s, iv) ==
    LET credentials == generateSecureApiCredentials(k, s, iv)
    IN  [apiKey |-> credentials.apiKey,
         apiSecret |-> credentials.apiSecret,
         apiSecretHash |-> credentials.apiSecret,
         encryptedSecret |-> credentials.encryptedSecret]

\* webhookAuth.generateApiCredentials: apiSecretHash carries the key hash
generateApiCredentials(k, s, iv) ==
    LET credentials == generateSecureApiCredentials(k, s, iv)
    IN  [apiKey |-> credentials.apiKey,
         apiSecret |-> credentials.apiSecret,
         apiSecretHash |-> credentials.apiKeyHash,
         encryptedSecret |-> credentials.encryptedSecret]

-----------------------------------------------------------------------------
(* The webhook payload and its canonical signing message *)

\* Keys of a payload in the order of JavaScript's default sort
SortedKeys == <<"action", "apiKey", "price", "quantity", "signature",
                "stopLoss", "symbol", "timestamp">>

KeyRank(key) == CHOOSE i \in 1..Len(SortedKeys) : SortedKeys[i] = key

\* A signature string: a hex digest is the text mac(secret, msg) of length
\* DigestHexLen; other strings have no secret and their own length
SigText(len, secret, msg) == [t |-> "str", len |-> len, secret |-> secret, msg |-> msg]
SigUndef == [t |-> "undef", len |-> 0, secret |-> "", msg |-> <<>>]

\* The object's own keys, in insertion order: fields that are not undefined
PayloadKeys(payload) ==
    SelectSeq(<<"action", "symbol", "quantity", "price", "stopLoss", "apiKey",
                "signature", "timestamp">>,
              LAMBDA key : payload[key].t # "undef")

\* A variant of the sort that leaves the keys as they were inserted
SortKeys_AsInserted(keys) == keys

\* Array.prototype.sort on keys (insertion sort by rank)
RECURSIVE SortKeys(_)
SortKeys(keys) ==
    IF keys = <<>> THEN <<>>
    ELSE LET rest == SortKeys(Tail(keys))
             k == Head(keys)
             before == SelectSeq(rest, LAMBDA x : KeyRank(x) < KeyRank(k))
             after == SelectSeq(rest, LAMBDA x : KeyRank(x) >= KeyRank(k))
         IN  before \o <<k>> \o after

\* A text as the pieces between its characters & and =, those characters
\* included, for the texts the model draws: one of them holds both
\* characters
Lexemes(text) ==
    IF text = "1&stopLoss=58000" THEN <<"1", "&", "stopLoss", "=", "58000">>
    ELSE <<text>>

\* keys.map(key => `${key}=${data[key]}`).join("&"): the string, as the
\* sequence of its pieces
RECURSIVE JoinFields(_, _)
JoinFields(payload, keys) ==
    IF keys = <<>> THEN <<>>
    ELSE <<Head(keys), "=">> \o Lexemes(Render(payload[Head(keys)]))
         \o (IF Len(keys) > 1 THEN <<"&">> ELSE <<>>)
         \o JoinFields(payload, Tail(keys))

\* const { signature: _, ...dataToSign } = payload
DataToSignKeys(payload) == SelectSeq(PayloadKeys(payload), LAMBDA key : key # "signature")

SignatureMessage(payload) == JoinFields(payload, SortKeys(DataToSignKeys(payload)))

\* createHmac("sha256", secret).update(message).digest("hex")
HmacHex(secret, message) == SigText(DigestHexLen, secret, message)

\* Mutant: buffers of the same length compare equal
timingSafeEqual_LengthOnly(a, b) ==
    IF a.t # "str" \/ a.len # b.len
    THEN [threw |-> TRUE, equal |-> FALSE]
    ELSE [threw |-> FALSE, equal |-> TRUE]

\* crypto.timingSafeEqual(Buffer.from(a), Buffer.from(b)):
\* throws when a is no string or the byte lengths differ
timingSafeEqual(a, b) ==
    IF a.t # "str" \/ a.len # b.len
    THEN [threw |-> TRUE, equal |-> FALSE]
    ELSE [threw |-> FALSE, equal |-> (a = b)]

\* [threw |-> TRUE] stands for a thrown error
verifyHmacSignature(payload, signature, secret) ==
    timingSafeEqual(signature, HmacHex(secret, SignatureMessage(payload)))

-----------------------------------------------------------------------------
(* Tables *)

Users == {"user_sample_001", "user_2"}
Symbols == {"BTC", "ETH"}

WindowTypes == <<"minute", "hour", "day">>

\* toWebhookConfig of a row of table webhooks (fields the gateway reads)
WebhookRow(id, userId, apiKey, apiSecretHash, encryptedSecret, enabled, allowedSymbols, maxOrderSize, dailyLimit, requireStopLoss) ==
    [id |-> id, userId |-> userId, apiKey |-> apiKey,
     apiSecretHash |-> apiSecretHash, encryptedSecret |-> encryptedSecret,
     enabled |-> enabled, allowedSymbols |-> allowedSymbols,
     maxOrderSize |-> maxOrderSize, dailyLimit |-> dailyLimit,
     requireStopLoss |-> requireStopLoss,
     executionCount |-> 0, lastExecutionAt |-> 0]

\* The api_key_hash column of a stored row: the migration adds it, and no
\* insert or update writes it, so it is NULL ("" here) in every row
ApiKeyHashColumn(row) == ""

\* null, as returned by a lookup that finds nothing
NoConfig == WebhookRow(0, "", "", "", NullText, FALSE, {}, 0, 0, FALSE)

\* A variant of the lookup that falls back to a stored row when none matches
getWebhookByApiKey_Fallback(table, apiKey) ==
    LET hits == {id \in DOMAIN table : table[id].apiKey = apiKey}
    IN  IF Cardinality(hits) = 1 THEN table[CHOOSE id \in hits : TRUE]
        ELSE IF DOMAIN table # {} THEN table[CHOOSE id \in DOMAIN table : TRUE]
        ELSE NoConfig

\* .from("webhooks").select("*").eq("api_key", apiKey).single()
getWebhookByApiKey(table, apiKey) ==
    LET hits == {id \in DOMAIN table : table[id].apiKey = apiKey}
    IN  IF Cardinality(hits) = 1 THEN table[CHOOSE id \in hits : TRUE] ELSE NoConfig

getUserFromApiKey(table, apiKey) == getWebhookByApiKey(table, apiKey)

-----------------------------------------------------------------------------
(* webhookAuth.verifyWebhookSignature *)

\* A variant of verifyWebhookSignature whose catch lets the request pass
verifyWebhookSignature_ThrowPasses(table, payload) ==
    LET webhookConfig == getWebhookByApiKey(table, payload.apiKey.s)
        secret == decryptApiSecret(webhookConfig.encryptedSecret, MasterKey)
        check == verifyHmacSignature(payload, payload.signature, secret.plain)
    IN  IF webhookConfig = NoConfig THEN FALSE
        ELSE IF webhookConfig.encryptedSecret # NullText
             THEN IF ~secret.ok \/ check.threw THEN TRUE ELSE check.equal
             ELSE FALSE

verifyWebhookSignature(table, payload) ==
    LET webhookConfig == getWebhookByApiKey(table, payload.apiKey.s)
        secret == decryptApiSecret(webhookConfig.encryptedSecret, MasterKey)
        check == verifyHmacSignature(payload, payload.signature, secret.plain)
    IN  IF webhookConfig = NoConfig THEN FALSE
        ELSE IF webhookConfig.encryptedSecret # NullText
             THEN IF ~secret.ok \/ check.threw THEN FALSE ELSE check.equal
             ELSE FALSE

-----------------------------------------------------------------------------
(* The checks of the webhook POST handler, in the order of the code *)

\* !payload.action || !payload.symbol || !payload.quantity || !payload.apiKey
MissingRequiredFields(payload) ==
    \/ ~Truthy(payload.action)
    \/ ~Truthy(payload.symbol)
    \/ ~Truthy(payload.quantity)
    \/ ~Truthy(payload.apiKey)

\* Mutant: the difference is taken without Math.abs, so only old requests fail
TimestampRejected_PastOnly(currentTime, payload) ==
    LET requestTime == Mul(payload.timestamp, Num(1000))
    IN  /\ requestTime.t = "num"
        /\ currentTime - requestTime.n > ReplayWindowMs

\* Math.abs(currentTime - payload.timestamp * 1000) > 5 * 60 * 1000
TimestampRejected(currentTime, payload) ==
    LET requestTime == Mul(payload.timestamp, Num(1000))
    IN  /\ requestTime.t = "num"
        /\ Abs(currentTime - requestTime.n) > ReplayWindowMs

\* Mutant: the symbol is looked up even in an empty list
SymbolRejected_EmptyListToo(webhookConfig, payload) ==
    payload.symbol.s \notin webhookConfig.allowedSymbols

SymbolRejected(webhookConfig, payload) ==
    /\ Cardinality(webhookConfig.allowedSymbols) > 0
    /\ payload.symbol.s \notin webhookConfig.allowedSymbols

\* payload.quantity * (payload.price || 0)
OrderValue(payload) == Mul(payload.quantity, OrElse(payload.price, Num(0)))

OrderSizeRejected(webhookConfig, payload) ==
    /\ webhookConfig.maxOrderSize # 0
    /\ GreaterThan(OrderValue(payload), webhookConfig.maxOrderSize)

StopLossRejected(webhookConfig, payload) ==
    /\ webhookConfig.requireStopLoss
    /\ ~Truthy(payload.stopLoss)

-----------------------------------------------------------------------------
(* webhookDatabase.checkDailyLimit (defined by the program, called by no handler) *)

\* today.setHours(0, 0, 0, 0)
StartOfDay(t) == t - (t % DayDurationMs)

RECURSIVE SumUsage(_)
SumUsage(logs) ==
    IF logs = <<>> THEN 0
    ELSE LET pl == Head(logs).requestPayload
             v == Mul(OrElse(pl.quantity, Num(0)), OrElse(pl.price, Num(0)))
         IN  (IF v.t = "num" THEN v.n ELSE 0) + SumUsage(Tail(logs))

CurrentUsage(logs, webhookId, t) ==
    SumUsage(SelectSeq(logs, LAMBDA l : /\ l.webhookId = webhookId
                                        /\ l.status = "success"
                                        /\ l.createdAt >= StartOfDay(t)))

checkDailyLimit(table, logs, webhookId, t) ==
    IF webhookId \notin DOMAIN table
    THEN [withinLimit |-> FALSE, currentUsage |-> 0, limit |-> 0]
    ELSE [withinLimit |-> CurrentUsage(logs, webhookId, t) < table[webhookId].dailyLimit,
          currentUsage |-> CurrentUsage(logs, webhookId, t),
          limit |-> table[webhookId].dailyLimit]

-----------------------------------------------------------------------------
(* rateLimiter.checkRateLimit *)

\* const windows = [...]: type, duration and limit of the i-th window
Window(config, i) ==
    CASE i = 1 -> [type |-> "minute", duration |-> MinuteDurationMs, limit |-> config.maxRequestsPerMinute]
      [] i = 2 -> [type |-> "hour", duration |-> HourDurationMs, limit |-> config.maxRequestsPerHour]
      [] OTHER -> [type |-> "day", duration |-> DayDurationMs, limit |-> config.maxRequestsPerDay]

\* A variant of the filter without .eq("api_key", apiKey)
MatchingRows_AnyKey(rows, userId, apiKey, type, windowStart) ==
    {row \in rows : /\ row.userId = userId
                    /\ row.windowType = type
                    /\ row.windowStart >= windowStart}

\* .eq("user_id").eq("api_key").eq("window_type").gte("window_start", windowStart)
MatchingRows(rows, userId, apiKey, type, windowStart) ==
    {row \in rows : /\ row.userId = userId
                    /\ row.apiKey = apiKey
                    /\ row.windowType = type
                    /\ row.windowStart >= windowStart}

\* .select("request_count")....single(): data is null (-1 here) unless exactly
\* one row matches
SelectSingle(rows, userId, apiKey, type, windowStart) ==
    LET hits == MatchingRows(rows, userId, apiKey, type, windowStart)
    IN  IF Cardinality(hits) = 1 THEN (CHOOSE row \in hits : TRUE).requestCount ELSE -1

\* Mutant: the window is full only once the count is past the limit
LimitExceeded_Past(existing, limit) == existing > limit

\* existing.request_count >= window.limit
LimitExceeded(existing, limit) == existing >= limit

\* .update({ request_count: existing.request_count + 1 }) on every matching row
UpdateCount(rows, userId, apiKey, type, windowStart, existing) ==
    LET hits == MatchingRows(rows, userId, apiKey, type, windowStart)
    IN  (rows \ hits) \cup {[row EXCEPT !.requestCount = existing + 1] : row \in hits}

\* .insert({..., window_start: now, request_count: 1}); a violation of
\* UNIQUE(user_id, api_key, window_type, window_start) is error 23505, ignored
InsertWindow(rows, userId, apiKey, type, t) ==
    IF \E row \in rows : /\ row.userId = userId
                         /\ row.apiKey = apiKey
                         /\ row.windowType = type
                         /\ row.windowStart = t
    THEN rows
    ELSE rows \cup {[userId |-> userId, apiKey |-> apiKey, windowType |-> type,
                     windowStart |-> t, requestCount |-> 1]}

-----------------------------------------------------------------------------
(* Requests and calls in flight *)

Procs == 1..(IF MaxCalls > MaxRequests THEN MaxCalls ELSE MaxRequests)

NoPayload == [action |-> Undef, symbol |-> Undef, quantity |-> Undef, price |-> Undef,
              stopLoss |-> Undef, apiKey |-> Undef, signature |-> SigUndef,
              timestamp |-> Undef]

\* kind: "webhook" (POST /api/webhooks/tradingview) or "call" (checkRateLimit
\* called directly).  no: the number of the request or call, in order of
\* arrival.  trace: the stages passed so far.  status: the HTTP status of the
\* response, 0 while there is none.  rl*: the locals of checkRateLimit.
\* usage: the credential's notional of the day, read when the policy checks
\* run (history only).  rlBefore: table rate_limits as it was when
\* checkRateLimit was entered; rlMissed: the window types for which its select
\* found no row; rlFaults: the storage operations of the call that did not
\* do what was asked, "select" when more than one row matched, "insert" when
\* the row was rejected as a duplicate; seen: the number of administrative
\* responses that had been sent when the request arrived (history only).
IdleProc ==
    [pc |-> "idle", kind |-> "none", no |-> 0, payload |-> NoPayload, cfg |-> NoConfig,
     receivedAt |-> 0, status |-> 0, error |-> "", trace |-> <<>>,
     rlUser |-> "", rlKey |-> "", rlNow |-> 0, rlIdx |-> 0, rlExisting |-> -1,
     rlResult |-> "none", rlDeniedBy |-> "", usage |-> 0,
     rlBefore |-> {}, rlMissed |-> {}, rlFaults |-> {}, seen |-> 0]

Respond(p, status, error) == [p EXCEPT !.pc = "done", !.status = status, !.error = error]

Passed(p, stage) == [p EXCEPT !.trace = Append(@, stage)]

\* Entering checkRateLimit: const now = new Date()
EnterRateLimit(p, userId, apiKey, t) ==
    [p EXCEPT !.pc = "rl_select", !.rlUser = userId, !.rlKey = apiKey,
              !.rlNow = t, !.rlIdx = 1, !.rlExisting = -1,
              !.rlBefore = rate_limits, !.rlMissed = {}, !.rlFaults = {}]

\* checkRateLimit returns: the handler answers 429 or goes on to the policy checks
LeaveRateLimit(p, allowed, deniedBy) ==
    LET q == [p EXCEPT !.rlResult = IF allowed THEN "allowed" ELSE "denied",
                       !.rlDeniedBy = deniedBy]
    IN  IF p.kind = "call" THEN [q EXCEPT !.pc = "done"]
        ELSE IF allowed THEN [Passed(q, "rate") EXCEPT !.pc = "policy"]
        ELSE Respond(q, 429, "Rate limit exceeded. Please try again later.")

\* One loop iteration, first half: the select and the limit test
RLSelect(r) ==
    /\ proc[r].pc = "rl_select"
    /\ LET p == proc[r]
           w == Window(limits, p.rlIdx)
           existing == SelectSingle(rate_limits, p.rlUser, p.rlKey, w.type,
                                    p.rlNow - w.duration)
           ambiguous == Cardinality(MatchingRows(rate_limits, p.rlUser, p.rlKey, w.type,
                                                 p.rlNow - w.duration)) > 1
       IN  proc' = [proc EXCEPT ![r] =
                IF existing # -1 /\ LimitExceeded(existing, w.limit)
                THEN LeaveRateLimit(p, FALSE, w.type)
                ELSE [p EXCEPT !.pc = "rl_write", !.rlExisting = existing,
                               !.rlMissed = IF existing = -1 THEN @ \cup {w.type} ELSE @,
                               !.rlFaults = IF ambiguous THEN @ \cup {"select"} ELSE @]]
    /\ UNCHANGED <<now, ticks, webhooks, rate_limits, webhook_logs, limits, started, responses>>

\* One loop iteration, second half: the update or the insert
RLWrite(r) ==
    /\ proc[r].pc = "rl_write"
    /\ LET p == proc[r]
           w == Window(limits, p.rlIdx)
       IN  /\ rate_limits' =
                IF p.rlExisting # -1
                THEN UpdateCount(rate_limits, p.rlUser, p.rlKey, w.type,
                                 p.rlNow - w.duration, p.rlExisting)
                ELSE InsertWindow(rate_limits, p.rlUser, p.rlKey, w.type, p.rlNow)
           /\ LET rejected == /\ p.rlExisting = -1
                               /\ InsertWindow(rate_limits, p.rlUser, p.rlKey, w.type,
                                               p.rlNow) = rate_limits
                   q == [p EXCEPT !.rlFaults = IF rejected THEN @ \cup {"insert"} ELSE @]
               IN  proc' = [proc EXCEPT ![r] =
                        IF p.rlIdx = Len(WindowTypes)
                        THEN LeaveRateLimit(q, TRUE, "")
                        ELSE [q EXCEPT !.pc = "rl_select", !.rlIdx = @ + 1,
                                       !.rlExisting = -1]]
    /\ UNCHANGED <<now, ticks, webhooks, webhook_logs, limits, started, responses>>

\* A direct call checkRateLimit(userId, apiKey, config)
CallCheckRateLimit(userId, apiKey) ==
    /\ started < MaxCalls
    /\ started' = started + 1
    /\ proc' = [proc EXCEPT ![started + 1] =
            EnterRateLimit([IdleProc EXCEPT !.kind = "call", !.no = started + 1,
                                            !.receivedAt = now],
                           userId, apiKey, now)]
    /\ UNCHANGED <<now, ticks, webhooks, rate_limits, webhook_logs, limits, responses>>

\* Time passes
Deltas == {1, MinuteDurationMs, HourDurationMs, DayDurationMs}

Tick ==
    /\ ticks < MaxTicks
    /\ ticks' = ticks + 1
    /\ \E d \in Deltas : now' = now + d
    /\ UNCHANGED <<webhooks, rate_limits, webhook_logs, limits, proc, started, responses>>

-----------------------------------------------------------------------------
(* webhookDatabase: updateWebhook, logWebhookExecution *)

\* A PATCH body: has is the set of fields the JSON body carries; the fields
\* a body of the gateway's tests never carries have one value here
PatchBody(has, enabled, maxOrderSize) ==
    [has |-> has, enabled |-> enabled, maxOrderSize |-> maxOrderSize,
     executionCount |-> 7, id |-> 9, userId |-> "user_2",
     apiKey |-> "wh_9", apiSecretHash |-> "sha256(whs_9)",
     encryptedSecret |-> RawText("whs_9")]

\* The fields the PATCH handler deletes from the body before the update
ProtectedFields == {"id", "userId", "apiKey", "apiSecretHash", "createdAt"}

StripProtected(body) == [body EXCEPT !.has = @ \ ProtectedFields]

\* A variant of updateWebhook that writes every field the body carries
updateWebhook_EveryField(row, updates) ==
    [row EXCEPT !.enabled = IF "enabled" \in updates.has THEN updates.enabled ELSE @,
                !.maxOrderSize = IF "maxOrderSize" \in updates.has
                                 THEN updates.maxOrderSize ELSE @,
                !.executionCount = IF "executionCount" \in updates.has
                                   THEN updates.executionCount ELSE @,
                !.encryptedSecret = IF "encryptedSecret" \in updates.has
                                    THEN updates.encryptedSecret ELSE @]

\* The row after .update(updateData).eq("id", webhookId): updateData takes
\* the policy fields and executionCount from the body, nothing else
updateWebhook(row, updates) ==
    [row EXCEPT !.enabled = IF "enabled" \in updates.has THEN updates.enabled ELSE @,
                !.maxOrderSize = IF "maxOrderSize" \in updates.has
                                 THEN updates.maxOrderSize ELSE @,
                !.executionCount = IF "executionCount" \in updates.has
                                   THEN updates.executionCount ELSE @]

\* The row inserted into webhook_logs
LogRow(webhookId, requestPayload, status, errorMessage, t, r) ==
    [webhookId |-> webhookId, requestPayload |-> requestPayload, status |-> status,
     errorMessage |-> errorMessage, createdAt |-> t, request |-> r]

\* The update of execution_count and last_execution_at that follows the insert
CountExecution(table, webhookId, status, t) ==
    IF webhookId \notin DOMAIN table THEN table
    ELSE [table EXCEPT ![webhookId] =
            [@ EXCEPT !.executionCount = IF status = "success" THEN @ + 1 ELSE @,
                      !.lastExecutionAt = t]]

\* The update is built with supabase.sql`...`; whether the client in use
\* offers that helper is not decided by this repository: it either applies
\* the update or throws, and the handler's wrapper swallows the throw
SqlHelper == {"applies", "throws"}

logWebhookExecution(table, webhookId, status, t, helper) ==
    IF helper = "applies" THEN CountExecution(table, webhookId, status, t) ELSE table

-----------------------------------------------------------------------------
(* POST /api/webhooks/tradingview *)

\* What a sender can put in the signature field of a payload: the HMAC under
\* a secret, or text that is no digest
Forged == SigText(DigestHexLen, "", <<>>)
Truncated == SigText(7, "", <<>>)

Sign(payload, secret) ==
    [payload EXCEPT !.signature = HmacHex(secret, SignatureMessage(payload))]

\* Timestamps (seconds) a sender can put in a payload received at time t
Timestamps(t) ==
    {Num(t \div 1000), Num((t \div 1000) - 300), Num((t \div 1000) - 400),
     Num((t \div 1000) + 400), Undef, Str("soon")}

\* The order fields of a payload
Orders ==
    [symbol : {Str(x) : x \in Symbols},
     quantity : {Num(1)},
     price : {Undef, Num(3000), Num(50000)},
     stopLoss : {Undef, Num(58000)}]

BaseOrder == [symbol |-> Str("BTC"), quantity |-> Num(1), price |-> Num(3000),
              stopLoss |-> Num(58000)]

Unsigned(order, apiKey, timestamp) ==
    [action |-> Str("buy"), symbol |-> order.symbol, quantity |-> order.quantity,
     price |-> order.price, stopLoss |-> order.stopLoss, apiKey |-> apiKey,
     signature |-> SigUndef, timestamp |-> timestamp]

\* Payloads whose fields are not what the sender's contract says: a stopLoss
\* that is no number, a large quantity without a price, a negative quantity,
\* an action that is none of buy, sell, close
OddPayloads(apiKey, timestamp) ==
    LET base == Unsigned(BaseOrder, apiKey, timestamp)
    IN  {[base EXCEPT !.stopLoss = Str("tight")],
         [base EXCEPT !.quantity = Num(2000), !.price = Undef],
         [base EXCEPT !.quantity = Num(-1)],
         [base EXCEPT !.action = Str("hold")]}

\* The payloads the model sends at time t:
\*  - every order, current timestamp, signed with the credential's secret;
\*  - the base order with every timestamp, signed with the right and with
\*    another secret;
\*  - the base order with a signature that is no digest, or none;
\*  - the base order under an unknown key, and with quantity 0;
\*  - the odd payloads, current timestamp, signed with the credential's secret;
\*  - the base order with quantity 0 under an unknown key
PayloadInputs(t) ==
    LET key == Str(ApiKeyNames[1])
        current == Num(t \div 1000)
    IN  {Sign(Unsigned(o, key, current), SecretNames[1]) : o \in Orders}
        \cup {Sign(Unsigned(BaseOrder, key, ts), SecretNames[i]) :
                ts \in Timestamps(t), i \in 1..Len(SecretNames)}
        \cup {[Unsigned(BaseOrder, key, current) EXCEPT !.signature = sig] :
                sig \in {Forged, Truncated, SigUndef}}
        \cup {Sign(Unsigned(BaseOrder, Str(ApiKeyNames[2]), ts), SecretNames[1]) :
                ts \in {current, Num((t \div 1000) - 400)}}
        \cup {Sign(Unsigned([BaseOrder EXCEPT !.quantity = Num(0)], key, ts), SecretNames[1]) :
                ts \in {current, Num((t \div 1000) - 400)}}
        \cup {Sign(odd, SecretNames[1]) : odd \in OddPayloads(key, current)}
        \cup {Sign(Unsigned([BaseOrder EXCEPT !.quantity = Num(0)],
                             Str(ApiKeyNames[2]), current), SecretNames[1])}

\* request.json(), the required fields, the timestamp window
Receive(r, payload) ==
    /\ started < MaxRequests
    /\ proc[r].pc = "idle"
    /\ started' = started + 1
    /\ LET p == [IdleProc EXCEPT !.kind = "webhook", !.no = started + 1,
                                 !.payload = payload, !.receivedAt = now,
                                 !.seen = Len(responses)]
       IN  proc' = [proc EXCEPT ![r] =
                IF MissingRequiredFields(payload)
                THEN Respond(p, 400, "Missing required fields: action, symbol, quantity, or apiKey")
                ELSE IF TimestampRejected(now, payload)
                THEN Respond(Passed(p, "fields"), 401, "Request timestamp is too old or invalid")
                ELSE [Passed(Passed(p, "fields"), "timestamp") EXCEPT !.pc = "verify"]]
    /\ UNCHANGED <<now, ticks, webhooks, rate_limits, webhook_logs, limits, responses>>

\* await verifyWebhookSignature(payload)
Verify(r) ==
    /\ proc[r].pc = "verify"
    /\ proc' = [proc EXCEPT ![r] =
            IF verifyWebhookSignature(webhooks, proc[r].payload)
            THEN [Passed(@, "signature") EXCEPT !.pc = "lookup"]
            ELSE Respond(@, 401, "Invalid signature or API key")]
    /\ UNCHANGED <<now, ticks, webhooks, rate_limits, webhook_logs, limits, started, responses>>

\* A variant that compares against the handler: the rate limiter is entered
\* for every stored credential, enabled or not
Lookup_CountsDisabled(r) ==
    /\ proc[r].pc = "lookup"
    /\ LET p == proc[r]
           webhookConfig == getUserFromApiKey(webhooks, p.payload.apiKey.s)
       IN  proc' = [proc EXCEPT ![r] =
                IF webhookConfig = NoConfig
                THEN Respond(p, 401, "Invalid API key")
                ELSE EnterRateLimit([Passed(p, "resolved") EXCEPT !.cfg = webhookConfig],
                                    webhookConfig.userId, p.payload.apiKey.s, now)]
    /\ UNCHANGED <<now, ticks, webhooks, rate_limits, webhook_logs, limits, started, responses>>

\* await getUserFromApiKey(payload.apiKey), the enabled test, and the entry
\* into checkRateLimit
Lookup(r) ==
    /\ proc[r].pc = "lookup"
    /\ LET p == proc[r]
           webhookConfig == getUserFromApiKey(webhooks, p.payload.apiKey.s)
       IN  proc' = [proc EXCEPT ![r] =
                IF webhookConfig = NoConfig
                THEN Respond(p, 401, "Invalid API key")
                ELSE IF ~webhookConfig.enabled
                THEN Respond([Passed(p, "resolved") EXCEPT !.cfg = webhookConfig],
                             403, "Webhook is disabled")
                ELSE EnterRateLimit(
                        [Passed(Passed(p, "resolved"), "enabled") EXCEPT !.cfg = webhookConfig],
                        webhookConfig.userId, p.payload.apiKey.s, now)]
    /\ UNCHANGED <<now, ticks, webhooks, rate_limits, webhook_logs, limits, started, responses>>

\* The symbol, order size and stop-loss checks; then orderService.executeOrder
\* is called
Policy(r) ==
    /\ proc[r].pc = "policy"
    /\ LET p == [proc[r] EXCEPT !.usage = CurrentUsage(webhook_logs, proc[r].cfg.id, now)]
       IN  proc' = [proc EXCEPT ![r] =
                IF SymbolRejected(p.cfg, p.payload)
                THEN Respond(p, 403, "Symbol is not allowed for this webhook")
                ELSE IF OrderSizeRejected(p.cfg, p.payload)
                THEN Respond(Passed(p, "symbol"), 403, "Order size exceeds maximum limit")
                ELSE IF StopLossRejected(p.cfg, p.payload)
                THEN Respond(Passed(Passed(p, "symbol"), "size"), 400,
                             "Stop loss is required for this webhook configuration")
                ELSE [Passed(Passed(Passed(Passed(p, "symbol"), "size"), "stoploss"), "executor")
                        EXCEPT !.pc = "execute"]]
    /\ UNCHANGED <<now, ticks, webhooks, rate_limits, webhook_logs, limits, started, responses>>

\* What the external executor does with an order: it returns a result or throws
ExecutorOutcomes == {"ok", "Insufficient balance", "Order rejected"}

\* executeOrder returns or throws
Execute(r) ==
    /\ proc[r].pc = "execute"
    /\ \E outcome \in ExecutorOutcomes :
        proc' = [proc EXCEPT ![r] =
            [@ EXCEPT !.pc = IF outcome = "ok" THEN "log_success" ELSE "catch",
                      !.error = outcome]]
    /\ UNCHANGED <<now, ticks, webhooks, rate_limits, webhook_logs, limits, started, responses>>

\* await logWebhookExecution(webhookConfig.id, payload, {...}, "success"); 200
LogSuccess(r) ==
    /\ proc[r].pc = "log_success"
    /\ \E helper \in SqlHelper :
        LET p == proc[r]
            stored == p.cfg.id \in DOMAIN webhooks
        IN  /\ webhook_logs' =
                IF stored
                THEN Append(webhook_logs, LogRow(p.cfg.id, p.payload, "success", "", now, p.no))
                ELSE webhook_logs
            /\ webhooks' = logWebhookExecution(webhooks, p.cfg.id, "success", now, helper)
            /\ proc' = [proc EXCEPT ![r] = Respond(p, 200, "")]
    /\ UNCHANGED <<now, ticks, rate_limits, limits, started, responses>>

\* The catch block: the failure is logged if the key still resolves, and the
\* status follows the error message
Catch(r) ==
    /\ proc[r].pc = "catch"
    /\ \E helper \in SqlHelper :
        LET p == proc[r]
            webhookConfig == getUserFromApiKey(webhooks, p.payload.apiKey.s)
        IN  /\ webhook_logs' =
                IF webhookConfig # NoConfig
                THEN Append(webhook_logs,
                            LogRow(webhookConfig.id, p.payload, "failed", p.error, now, p.no))
                ELSE webhook_logs
            /\ webhooks' =
                IF webhookConfig # NoConfig
                THEN logWebhookExecution(webhooks, webhookConfig.id, "failed", now, helper)
                ELSE webhooks
            /\ proc' = [proc EXCEPT ![r] =
                CASE p.error = "Insufficient balance" ->
                        Respond(p, 400, "Insufficient balance to execute order")
                  [] p.error = "Market closed" -> Respond(p, 400, "Market is closed")
                  [] OTHER -> Respond(p, 500, "Internal server error")]
    /\ UNCHANGED <<now, ticks, rate_limits, limits, started, responses>>

\* The response has been sent: the handler's locals are gone
Finish(r) ==
    /\ proc[r].pc = "done"
    /\ proc[r].kind = "webhook"
    /\ proc' = [proc EXCEPT ![r] = IdleProc]
    /\ UNCHANGED <<now, ticks, webhooks, rate_limits, webhook_logs, limits, started, responses>>

\* PATCH /api/webhooks/[id]
Patch(webhookId, body) ==
    /\ Len(responses) < MaxAdminOps
    /\ IF webhookId \in DOMAIN webhooks
       THEN /\ webhooks' = [webhooks EXCEPT ![webhookId] =
                                updateWebhook(@, StripProtected(body))]
            /\ responses' = Append(responses,
                    [op |-> "PATCH", status |-> 200,
                     webhooks |-> {updateWebhook(webhooks[webhookId], StripProtected(body))},
                     apiSecret |-> ""])
       ELSE /\ UNCHANGED webhooks
            /\ responses' = Append(responses,
                    [op |-> "PATCH", status |-> 404, webhooks |-> {}, apiSecret |-> ""])
    /\ UNCHANGED <<now, ticks, rate_limits, webhook_logs, limits, proc, started>>

-----------------------------------------------------------------------------
(* POST /api/webhooks: creation *)

\* A creation body: has is the set of fields the JSON body carries
CreateBody(has, allowedSymbols, maxOrderSize, requireStopLoss) ==
    [has |-> has, apiKey |-> "", apiSecretHash |-> "", encryptedSecret |-> NullText,
     enabled |-> TRUE, allowedSymbols |-> allowedSymbols,
     maxOrderSize |-> maxOrderSize, dailyLimit |-> 0,
     requireStopLoss |-> requireStopLoss]

\* The argument the handler passes to createWebhook, with the credentials it
\* generated (k, s, iv: the random draws) or took from the body
CreateConfig(id, userId, body, k, s, iv) ==
    LET generated == "apiKey" \notin body.has \/ body.apiKey = ""
        credentials == generateApiCredentials(k, s, iv)
    IN  WebhookRow(id, userId,
            IF generated THEN credentials.apiKey ELSE body.apiKey,
            IF generated THEN credentials.apiSecretHash ELSE body.apiSecretHash,
            IF generated THEN credentials.encryptedSecret ELSE body.encryptedSecret,
            ~("enabled" \in body.has /\ body.enabled = FALSE),
            IF "allowedSymbols" \in body.has THEN body.allowedSymbols ELSE {},
            IF "maxOrderSize" \in body.has /\ body.maxOrderSize # 0
                THEN body.maxOrderSize ELSE DefaultMaxOrderSize,
            IF "dailyLimit" \in body.has /\ body.dailyLimit # 0
                THEN body.dailyLimit ELSE DefaultDailyLimit,
            "requireStopLoss" \in body.has /\ body.requireStopLoss)

-----------------------------------------------------------------------------
(* The gateway: one stored credential, requests, PATCH, the clock *)

StartTime == 2 * DayDurationMs

LimitConfigs ==
    [maxRequestsPerMinute : 1..MaxLimit, maxRequestsPerHour : 1..MaxLimit,
     maxRequestsPerDay : 1..MaxLimit]

\* The policies the stored credential was created with
PolicyBodies ==
    {CreateBody(has, {"BTC"}, 100000, TRUE) :
        has \in SUBSET {"allowedSymbols", "maxOrderSize", "requireStopLoss"}}

\* PATCH bodies applied to the stored credential before the requests arrive
\* (the first changes nothing)
PatchBodies ==
    {PatchBody({}, TRUE, 0), PatchBody({"enabled"}, FALSE, 0),
     PatchBody({"maxOrderSize"}, TRUE, 0)}

\* The gateway handles one request at a time here
Gateway == 1

Init ==
    /\ now = StartTime
    /\ ticks = 0
    /\ \E body \in PolicyBodies, patch \in PatchBodies :
        webhooks = (1 :> updateWebhook(
                            CreateConfig(1, "user_sample_001", body, 1, 1, 1), patch))
    /\ rate_limits = {}
    /\ webhook_logs = <<>>
    /\ limits \in {c \in LimitConfigs : c.maxRequestsPerHour = MaxLimit
                                        /\ c.maxRequestsPerDay = MaxLimit}
    /\ proc = [r \in Procs |-> IdleProc]
    /\ started = 0
    /\ responses = <<>>

Next ==
    \/ /\ started < MaxRequests
       /\ \E payload \in PayloadInputs(now) : Receive(Gateway, payload)
    \/ Verify(Gateway)
    \/ Lookup(Gateway)
    \/ RLSelect(Gateway)
    \/ RLWrite(Gateway)
    \/ Policy(Gateway)
    \/ Execute(Gateway)
    \/ LogSuccess(Gateway)
    \/ Catch(Gateway)
    \/ Finish(Gateway)

Spec == Init /\ [][Next]_vars

-----------------------------------------------------------------------------
(* Vocabulary of the claims *)

Requests == {r \in Procs : proc[r].kind = "webhook"}

InTrace(p, stage) == \E i \in 1..Len(p.trace) : p.trace[i] = stage

\* The stages in the order the gateway is to run them
Pipeline == <<"fields", "timestamp", "signature", "resolved", "enabled", "rate",
              "symbol", "size", "stoploss", "executor">>

ReachedExecutor(p) == InTrace(p, "executor")

\* The policy checks have been evaluated for the request
PolicyEvaluated(p) == InTrace(p, "rate") /\ p.pc # "policy"

\* The request's timestamp is a number more than 300 s from the time of receipt
Stale(p) ==
    /\ p.payload.timestamp.t = "num"
    /\ Abs(p.receivedAt - 1000 * p.payload.timestamp.n) > 300 * 1000

HasPrice(p) == p.payload.price.t = "num"

\* quantity * price of the order (0 when the order names no price)
Notional(p) == IF HasPrice(p) THEN p.payload.quantity.n * p.payload.price.n ELSE 0

\* The policy rules as the design states them
ViolatesDisabled(p) == ~p.cfg.enabled
ViolatesSymbol(p) ==
    p.cfg.allowedSymbols # {} /\ p.payload.symbol.s \notin p.cfg.allowedSymbols
ViolatesSize(p) == HasPrice(p) /\ Notional(p) > p.cfg.maxOrderSize
ViolatesStopLoss(p) == p.cfg.requireStopLoss /\ p.payload.stopLoss.t # "num"
ViolatesDaily(p) == p.usage + Notional(p) > p.cfg.dailyLimit

DeniedDisabled(p) == p.status = 403 /\ p.error = "Webhook is disabled"
DeniedSymbol(p) == p.status = 403 /\ p.error = "Symbol is not allowed for this webhook"
DeniedSize(p) == p.status = 403 /\ p.error = "Order size exceeds maximum limit"
DeniedStopLoss(p) ==
    p.status = 400 /\ p.error = "Stop loss is required for this webhook configuration"

\* The log rows written for request number n
LogsOf(n) == SelectSeq(webhook_logs, LAMBDA l : l.request = n)

-----------------------------------------------------------------------------
(* Claims about the gateway, checked under Spec *)

\* C1: the executor is invoked for a request only after that request passed,
\* in this order, the required-field and timestamp checks, signature
\* verification, credential resolution, the enabled check, the rate limiter
\* and the symbol, size and stop-loss checks, and only while the day's
\* notional plus the order's stays within the daily limit; a request that got
\* a denial never reached the executor.
C1_ExecutorOnlyAfterAllStages ==
    \A r \in Requests :
        /\ ReachedExecutor(proc[r]) =>
              /\ proc[r].trace = Pipeline
              /\ ~ViolatesDaily(proc[r])
        /\ proc[r].status \in {401, 403, 429} => ~ReachedExecutor(proc[r])

\* The gateway with the credential as the dashboard creates it by default;
\* the requests are those of Spec
InitReplay ==
    /\ now = StartTime
    /\ ticks = 0
    /\ \E patch \in {PatchBody({}, TRUE, 0), PatchBody({"enabled"}, FALSE, 0)} :
        webhooks = (1 :> updateWebhook(
                            CreateConfig(1, "user_sample_001", CreateBody({}, {}, 0, FALSE),
                                         1, 1, 1), patch))
    /\ rate_limits = {}
    /\ webhook_logs = <<>>
    /\ limits \in {c \in LimitConfigs : c.maxRequestsPerMinute = MaxLimit
                                        /\ c.maxRequestsPerHour = MaxLimit
                                        /\ c.maxRequestsPerDay = MaxLimit}
    /\ proc = [r \in Procs |-> IdleProc]
    /\ started = 0
    /\ responses = <<>>

SpecReplay == InitReplay /\ [][Next]_vars

C6_DailyLimitEnforced ==
    \A r \in Requests :
        (PolicyEvaluated(proc[r]) /\ ViolatesDaily(proc[r])) => ~ReachedExecutor(proc[r])

\* C7: an authenticated, rate-allowed order with an allowed symbol is denied
\* as too large (403) exactly when quantity*price exceeds maxOrderSize.
C7_TooLargeExactly ==
    \A r \in Requests :
        (PolicyEvaluated(proc[r]) /\ HasPrice(proc[r]) /\ ~ViolatesSymbol(proc[r])) =>
            (DeniedSize(proc[r]) <=> Notional(proc[r]) > proc[r].cfg.maxOrderSize)

\* C8: a request that violates several policy rules is denied with the reason
\* of the first one in the order disabled, symbol, size, stop-loss, daily.
C8_FirstViolatedWins ==
    \A r \in Requests :
        LET p == proc[r]
            several == Cardinality({i \in 1..5 :
                           <<ViolatesDisabled(p), ViolatesSymbol(p), ViolatesSize(p),
                             ViolatesStopLoss(p), ViolatesDaily(p)>>[i]}) >= 2
        IN  ((PolicyEvaluated(p) \/ DeniedDisabled(p)) /\ several) =>
                CASE ViolatesDisabled(p) -> DeniedDisabled(p)
                  [] ViolatesSymbol(p) -> DeniedSymbol(p)
                  [] ViolatesSize(p) -> DeniedSize(p)
                  [] OTHER -> DeniedStopLoss(p)

\* C9: every request denied after its credential resolved has exactly one
\* log row, with status failed, for that credential.
C9_DenialsLogged ==
    \A r \in Requests :
        LET p == proc[r]
            credential == getWebhookByApiKey(webhooks, p.payload.apiKey.s)
        IN  (p.pc = "done" /\ p.status # 200 /\ InTrace(p, "timestamp")
                /\ credential # NoConfig) =>
                /\ Len(LogsOf(p.no)) = 1
                /\ LogsOf(p.no)[1].status = "failed"
                /\ LogsOf(p.no)[1].webhookId = credential.id

-----------------------------------------------------------------------------
(* Signature verification on its own: a credential has just been created   *)
(* (its creation response is in responses), and requests with every kind   *)
(* of signature arrive and are verified, one after the other.              *)

\* The JSON the creation handler answers with
CreateResponse(webhook, apiSecret) ==
    [op |-> "POST", status |-> 200, webhooks |-> {webhook}, apiSecret |-> apiSecret]

\* Payloads for signature verification at time t: two different orders under
\* either key, signed with either secret, signed and then altered, or
\* carrying text that is no digest of the right length, or nothing
SigPayloads(t) ==
    LET current == Num(t \div 1000)
        orders == {BaseOrder, [BaseOrder EXCEPT !.stopLoss = Undef]}
        unsigned == {Unsigned(o, Str(ApiKeyNames[k]), current) :
                        o \in orders, k \in 1..Len(ApiKeyNames)}
    IN  {Sign(u, SecretNames[i]) : u \in unsigned, i \in 1..Len(SecretNames)}
        \cup {[Sign(u, SecretNames[1]) EXCEPT !.price = Num(50000)] : u \in unsigned}
        \cup {[u EXCEPT !.signature = sig] :
                u \in unsigned, sig \in {Forged, Truncated, SigUndef}}

InitSig ==
    /\ now = StartTime
    /\ ticks = 0
    /\ \E k \in 1..Len(ApiKeyNames), s \in 1..Len(SecretNames), iv \in IVs :
        LET webhook == CreateConfig(1, "user_sample_001", CreateBody({}, {}, 0, FALSE),
                                    k, s, iv)
        IN  /\ webhooks = (1 :> webhook)
            /\ responses = <<CreateResponse(webhook, generateApiCredentials(k, s, iv).apiSecret)>>
    /\ rate_limits = {}
    /\ webhook_logs = <<>>
    /\ limits \in {c \in LimitConfigs : c.maxRequestsPerMinute = MaxLimit
                                        /\ c.maxRequestsPerHour = MaxLimit
                                        /\ c.maxRequestsPerDay = MaxLimit}
    /\ proc = [r \in Procs |-> IdleProc]
    /\ started = 0

NextSig ==
    \/ /\ started < MaxRequests
       /\ \A q \in Procs : proc[q].pc # "verify"
       /\ \E payload \in SigPayloads(now) : Receive(started + 1, payload)
    \/ \E r \in Procs : Verify(r)

SpecSig == InitSig /\ [][NextSig]_vars

\* The secret handed out when the credential with this key was created
IssuedSecret(apiKey) ==
    LET i == CHOOSE i \in 1..Len(responses) :
                /\ responses[i].op = "POST"
                /\ \E w \in responses[i].webhooks : w.apiKey = apiKey
    IN  responses[i].apiSecret

Verified(p) == p.kind = "webhook" /\ InTrace(p, "timestamp") /\ p.pc # "verify"

\* C2: for every payload under a stored credential's key, verification
\* accepts when the signature is the HMAC-SHA256 of the canonical message of
\* the payload (without its signature field) under the credential's secret,
\* and rejects every other signature.
C2_VerifyIffHmac ==
    \A r \in Procs :
        LET p == proc[r]
        IN  (Verified(p) /\ getWebhookByApiKey(webhooks, p.payload.apiKey.s) # NoConfig) =>
                (InTrace(p, "signature") <=>
                    p.payload.signature =
                        HmacHex(IssuedSecret(p.payload.apiKey.s), SignatureMessage(p.payload)))

\* Witness of C2: of two requests with the same canonical message, the one
\* signed with the credential's secret was accepted and the one whose digest
\* differs from it was rejected
C2_Witness ==
    \E r1, r2 \in Procs :
        /\ Verified(proc[r1]) /\ Verified(proc[r2])
        /\ SignatureMessage(proc[r1].payload) = SignatureMessage(proc[r2].payload)
        /\ proc[r2].payload.signature.len = DigestHexLen
        /\ proc[r1].payload.signature # proc[r2].payload.signature
        /\ InTrace(proc[r1], "signature")
        /\ proc[r2].status = 401

-----------------------------------------------------------------------------
(* The rate limiter on its own: checkRateLimit is called for one            *)
(* (user, apiKey) while the clock advances.  SpecSeq starts a call only     *)
(* when the previous one has returned; SpecRL lets calls overlap.           *)

InitRL ==
    /\ now = StartTime
    /\ ticks = 0
    /\ webhooks = (1 :> CreateConfig(1, "user_sample_001", CreateBody({}, {}, 0, FALSE),
                                     1, 1, 1))
    /\ rate_limits = {}
    /\ webhook_logs = <<>>
    /\ limits \in LimitConfigs
    /\ proc = [r \in Procs |-> IdleProc]
    /\ started = 0
    /\ responses = <<>>

Returned(p) == p.kind = "call" /\ p.pc = "done"

NextSeq ==
    \/ /\ \A q \in Procs : proc[q].pc \in {"idle", "done"}
       /\ CallCheckRateLimit("user_sample_001", ApiKeyNames[1])
    \/ \E r \in Procs : RLSelect(r)
    \/ \E r \in Procs : RLWrite(r)
    \/ Tick

SpecSeq == InitRL /\ [][NextSeq]_vars

NextRL ==
    \/ CallCheckRateLimit("user_sample_001", ApiKeyNames[1])
    \/ \E r \in Procs : RLSelect(r)
    \/ \E r \in Procs : RLWrite(r)

SpecRL == InitRL /\ [][NextRL]_vars

Kinds == 1..Len(WindowTypes)

\* The calls made inside the window that row opened: from its window_start
\* and for less than the duration of its kind
CallsInWindow(row, k) ==
    {r \in Procs : /\ proc[r].kind = "call"
                   /\ proc[r].rlUser = row.userId /\ proc[r].rlKey = row.apiKey
                   /\ proc[r].rlNow >= row.windowStart
                   /\ proc[r].rlNow < row.windowStart + Window(limits, k).duration}

WindowRows(k) == {row \in rate_limits : row.windowType = WindowTypes[k]}

\* The call was not denied by a window of another kind than k
OnlyKind(p, k) == p.rlResult = "allowed" \/ p.rlDeniedBy = WindowTypes[k]

\* C4: for each window kind taken on its own (no call in the window is
\* denied by another kind), of the sequential calls made for one
\* (user, apiKey) inside one window the first limit(kind) return allowed and
\* every later one returns denied.
C4_SequentialLimit ==
    \A k \in Kinds : \A row \in WindowRows(k) : \A r \in CallsInWindow(row, k) :
        LET earlier == {q \in CallsInWindow(row, k) : proc[q].no < proc[r].no}
        IN  (/\ Returned(proc[r])
             /\ \A q \in earlier \cup {r} : OnlyKind(proc[q], k)) =>
                (proc[r].rlResult = "allowed"
                    <=> Cardinality(earlier) < Window(limits, k).limit)

\* Witness of C4: the hour window, more than a minute after it opened, has
\* admitted limit(hour) calls and denied the next one
C4_Witness ==
    \E row \in WindowRows(2) : \E r \in CallsInWindow(row, 2) :
        LET earlier == {q \in CallsInWindow(row, 2) : proc[q].no < proc[r].no}
        IN  /\ Returned(proc[r])
            /\ proc[r].rlNow > row.windowStart + MinuteDurationMs
            /\ proc[r].rlDeniedBy = "hour"
            /\ Cardinality(earlier) = limits.maxRequestsPerHour
            /\ \A q \in earlier : proc[q].rlResult = "allowed"

\* C5: under any interleaving of concurrent calls for one (user, apiKey), a
\* window of a kind never admits more calls than the kind's limit, and once
\* the calls have returned its count is the number of calls it admitted.
C5_ConcurrentLimit ==
    \A k \in Kinds : \A row \in WindowRows(k) :
        LET admitted == {r \in CallsInWindow(row, k) :
                            Returned(proc[r]) /\ proc[r].rlResult = "allowed"}
        IN  /\ Cardinality(admitted) <= Window(limits, k).limit
            /\ (\A r \in CallsInWindow(row, k) : Returned(proc[r]) /\ OnlyKind(proc[r], k))
                  => row.requestCount = Cardinality(admitted)

-----------------------------------------------------------------------------
(* The dashboard API: creation, listing and PATCH of webhooks *)

\* Creation bodies: those of the dashboard (a name and policy fields, no
\* credentials, or nothing at all), and one of a client that supplies its own
\* apiKey and apiSecretHash
AdminCreateBodies ==
    {CreateBody({"name"}, {}, 0, FALSE),
     CreateBody({"name", "maxOrderSize", "requireStopLoss"}, {}, 100000, TRUE),
     CreateBody({}, {}, 0, FALSE),
     [CreateBody({"name", "apiKey", "apiSecretHash"}, {}, 0, FALSE)
        EXCEPT !.apiKey = ApiKeyNames[1], !.apiSecretHash = "sha256(whs_1)"]}

\* PATCH bodies of the dashboard and of any other client of the endpoint: the
\* gateway's, a body that carries executionCount, and a body that carries
\* every field of a webhook
AdminPatchBodies ==
    PatchBodies
    \cup {PatchBody({"executionCount"}, TRUE, 0),
          PatchBody({"enabled", "maxOrderSize", "executionCount", "encryptedSecret"}
                        \cup ProtectedFields, FALSE, 50)}

\* POST /api/webhooks; k, s, iv are the draws of crypto.randomBytes
Create(userId, body, k, s, iv) ==
    LET id == Cardinality(DOMAIN webhooks) + 1
        generated == "apiKey" \notin body.has \/ body.apiKey = ""
        webhook == CreateConfig(id, userId, body, k, s, iv)
        apiSecret == IF generated THEN generateApiCredentials(k, s, iv).apiSecret ELSE ""
    IN  /\ Len(responses) < MaxAdminOps
        /\ IF "name" \notin body.has
           THEN /\ responses' = Append(responses,
                        [op |-> "POST", status |-> 400, webhooks |-> {}, apiSecret |-> ""])
                /\ UNCHANGED webhooks
           ELSE IF \E w \in DOMAIN webhooks : webhooks[w].apiKey = webhook.apiKey
           THEN \* api_key is UNIQUE: the insert fails and createWebhook throws
                /\ responses' = Append(responses,
                        [op |-> "POST", status |-> 500, webhooks |-> {}, apiSecret |-> ""])
                /\ UNCHANGED webhooks
           ELSE /\ webhooks' = webhooks @@ (id :> webhook)
                /\ responses' = Append(responses, CreateResponse(webhook, apiSecret))
        /\ UNCHANGED <<now, ticks, rate_limits, webhook_logs, limits, proc, started>>

\* GET /api/webhooks: getUserWebhooks(userId)
List(userId) ==
    /\ Len(responses) < MaxAdminOps
    /\ responses' = Append(responses,
            [op |-> "GET", status |-> 200,
             webhooks |-> {webhooks[w] : w \in {i \in DOMAIN webhooks :
                                                   webhooks[i].userId = userId}},
             apiSecret |-> ""])
    /\ UNCHANGED <<now, ticks, webhooks, rate_limits, webhook_logs, limits, proc, started>>

InitAdmin ==
    /\ now = StartTime
    /\ ticks = 0
    /\ webhooks = [w \in {} |-> NoConfig]
    /\ rate_limits = {}
    /\ webhook_logs = <<>>
    /\ limits \in {c \in LimitConfigs : c.maxRequestsPerMinute = MaxLimit
                                        /\ c.maxRequestsPerHour = MaxLimit
                                        /\ c.maxRequestsPerDay = MaxLimit}
    /\ proc = [r \in Procs |-> IdleProc]
    /\ started = 0
    /\ responses = <<>>

NextAdmin ==
    \/ \E body \in AdminCreateBodies, k \in 1..Len(ApiKeyNames),
          s \in 1..Len(SecretNames), iv \in IVs :
            Create("user_sample_001", body, k, s, iv)
    \/ \E userId \in Users : List(userId)
    \/ \E webhookId \in 1..2, body \in AdminPatchBodies : Patch(webhookId, body)

SpecAdmin == InitAdmin /\ [][NextAdmin]_vars

\* The plaintext secrets handed out so far
IssuedSecrets ==
    {responses[i].apiSecret : i \in {j \in 1..Len(responses) : responses[j].apiSecret # ""}}

\* No field of the credential, as stored or as sent, is the secret, and the
\* data part of its encryptedSecret is not the unencrypted secret
HidesSecret(webhook, secret) ==
    /\ webhook.apiKey # secret
    /\ webhook.apiSecretHash # secret
    /\ webhook.encryptedSecret.raw # secret
    /\ (Len(webhook.encryptedSecret.parts) = 3 /\ secret = IssuedSecret(webhook.apiKey)) =>
            webhook.encryptedSecret.parts[2] # SecretIndex(secret)

\* C10: the plaintext secret appears only in the response of the creation
\* call: no stored credential field holds it, and no list or update response
\* contains it.
C10_SecretOnlyAtCreation ==
    /\ \A secret \in IssuedSecrets :
        /\ \A w \in DOMAIN webhooks : HidesSecret(webhooks[w], secret)
        /\ \A i \in 1..Len(responses) : \A w \in responses[i].webhooks :
                HidesSecret(w, secret)
    /\ \A i \in 1..Len(responses) :
        responses[i].apiSecret # "" =>
            /\ responses[i].op = "POST"
            /\ responses[i].status = 200

\* Witness of C10: a credential was created, its secret was handed out, and
\* a later list or update response returned the credential
C10_Witness ==
    \E i, j \in 1..Len(responses) :
        /\ i < j
        /\ responses[i].apiSecret \in {SecretNames[s] : s \in 1..Len(SecretNames)}
        /\ responses[j].op \in {"GET", "PATCH"}
        /\ responses[j].webhooks = {webhooks[w] : w \in DOMAIN webhooks}
        /\ responses[j].webhooks # {}

-----------------------------------------------------------------------------
(* Further claims about the gateway, checked under Spec *)

\* C11: a request whose timestamp field is missing or is not a number is
\* denied and never reaches the executor.
C11_BadTimestampDenied ==
    \A r \in Requests :
        proc[r].payload.timestamp.t # "num" =>
            /\ ~ReachedExecutor(proc[r])
            /\ proc[r].status # 200

\* The policy checks on their own: a credential with one of the policies,
\* and correctly signed, fresh orders
MaxOrders == 1   \* orders per behaviour of SpecPolicy

PolicyPayloads(t) ==
    LET key == Str(ApiKeyNames[1])
        current == Num(t \div 1000)
    IN  {Sign(Unsigned(o, key, current), SecretNames[1]) : o \in Orders}
        \cup {Sign(odd, SecretNames[1]) : odd \in OddPayloads(key, current)}

InitPolicy ==
    /\ now = StartTime
    /\ ticks = 0
    /\ \E body \in PolicyBodies :
        webhooks = (1 :> CreateConfig(1, "user_sample_001", body, 1, 1, 1))
    /\ rate_limits = {}
    /\ webhook_logs = <<>>
    /\ limits \in {c \in LimitConfigs : c.maxRequestsPerMinute = MaxLimit
                                        /\ c.maxRequestsPerHour = MaxLimit
                                        /\ c.maxRequestsPerDay = MaxLimit}
    /\ proc = [r \in Procs |-> IdleProc]
    /\ started = 0
    /\ responses = <<>>

NextPolicy ==
    \/ /\ started < MaxOrders
       /\ \E payload \in PolicyPayloads(now) : Receive(Gateway, payload)
    \/ Verify(Gateway)
    \/ Lookup(Gateway)
    \/ RLSelect(Gateway)
    \/ RLWrite(Gateway)
    \/ Policy(Gateway)
    \/ Execute(Gateway)
    \/ LogSuccess(Gateway)
    \/ Catch(Gateway)
    \/ Finish(Gateway)

SpecPolicy == InitPolicy /\ [][NextPolicy]_vars

\* C16: when the credential's allowedSymbols is non-empty, a request whose
\* symbol is not a member is denied with status 403 and not executed; when
\* allowedSymbols is empty, no request is denied because of its symbol.
C16_SymbolAllowList ==
    \A r \in Requests :
        PolicyEvaluated(proc[r]) =>
            /\ DeniedSymbol(proc[r]) <=> ViolatesSymbol(proc[r])
            /\ ViolatesSymbol(proc[r]) => ~ReachedExecutor(proc[r])

\* Witness of C16: an ETH order for a credential that allows only BTC has
\* been denied with status 403
C16_Witness ==
    \E r \in Requests :
        /\ PolicyEvaluated(proc[r])
        /\ proc[r].cfg.allowedSymbols = {"BTC"}
        /\ proc[r].payload.symbol = Str("ETH")
        /\ proc[r].status = 403
        /\ ~ReachedExecutor(proc[r])

\* The request was not stopped by a policy check that runs before the
\* stop-loss check
PastSizeCheck(p) == PolicyEvaluated(p) /\ ~DeniedSymbol(p) /\ ~DeniedSize(p)

\* C15: when the credential's requireStopLoss flag is set, a request is
\* denied with stopLossRequired (status 400) and not executed unless its
\* stopLoss field is present and is a number; one with a numeric stopLoss
\* passes this check.
C15_StopLossMustBeNumber ==
    \A r \in Requests :
        (PastSizeCheck(proc[r]) /\ proc[r].cfg.requireStopLoss) =>
            /\ DeniedStopLoss(proc[r]) <=> proc[r].payload.stopLoss.t # "num"
            /\ proc[r].payload.stopLoss.t # "num" => ~ReachedExecutor(proc[r])

\* C17: for an order with no price the order-size check takes the quantity
\* alone as the notional: the order is denied as too large when its quantity
\* is greater than maxOrderSize.
C17_NoPriceUsesQuantity ==
    \A r \in Requests :
        (PolicyEvaluated(proc[r]) /\ ~DeniedSymbol(proc[r])
            /\ proc[r].payload.price.t = "undef"
            /\ proc[r].payload.quantity.t = "num"
            /\ proc[r].payload.quantity.n > proc[r].cfg.maxOrderSize) =>
                DeniedSize(proc[r])

\* The last stage the request passed
LastStage(p) == IF p.trace = <<>> THEN "none" ELSE p.trace[Len(p.trace)]

\* The executor threw for the request: the catch block logged the failure
ExecutorFailed(p) ==
    ReachedExecutor(p) /\ \E i \in 1..Len(LogsOf(p.no)) : LogsOf(p.no)[i].status = "failed"

\* C18: the status of every response is determined by the outcome: 200 for
\* success; 400 for missing fields and a missing required stop-loss; 401 for
\* a stale timestamp, a bad signature and an unknown key; 403 for a disabled
\* webhook, a symbol not allowed and an order too large; 429 for the rate
\* limit; 500 for any failure of the executor.
C18_StatusByOutcome ==
    \A r \in Requests :
        LET p == proc[r]
        IN  p.pc = "done" =>
                p.status = CASE LastStage(p) = "none" -> 400
                             [] LastStage(p) \in {"fields", "timestamp", "signature"} -> 401
                             [] LastStage(p) = "resolved" -> 403
                             [] LastStage(p) = "enabled" -> 429
                             [] LastStage(p) \in {"rate", "symbol"} -> 403
                             [] LastStage(p) = "size" -> 400
                             [] OTHER -> IF ExecutorFailed(p) THEN 500 ELSE 200

ValidActions == {"buy", "sell", "close"}

\* C19: a request whose quantity is not a positive number, or whose action is
\* not one of buy, sell, close, is rejected with status 400 and never reaches
\* the rate limiter or the executor.
C19_InvalidFieldsRejected ==
    \A r \in Requests :
        LET p == proc[r]
        IN  (\/ p.payload.quantity.t # "num"
             \/ p.payload.quantity.n <= 0
             \/ p.payload.action.s \notin ValidActions) =>
                /\ p.rlIdx = 0
                /\ ~ReachedExecutor(p)
                /\ p.pc = "done" => p.status = 400

-----------------------------------------------------------------------------
(* Further claims about the rate limiter *)

\* The call went past the window of kind k: it was not denied by that window
\* or by an earlier one
PassedKind(p, k) ==
    \/ p.rlResult = "allowed"
    \/ \E j \in Kinds : j > k /\ p.rlDeniedBy = WindowTypes[j]

\* C12: when two concurrent calls for one (user, apiKey), less than a window
\* apart, both find no active window of a kind, then once the calls have
\* returned exactly one row of that kind was created by them, and its count
\* is the number of calls in its window that it let pass (2 for the two
\* calls): the loser of the creation race is counted as an increment.
C12_CreationRaceCounted ==
    \A k \in Kinds : \A r1, r2 \in Procs :
        LET created == {row \in WindowRows(k) :
                            row.windowStart \in {proc[r1].rlNow, proc[r2].rlNow}}
        IN  (/\ r1 # r2
             /\ Returned(proc[r1]) /\ WindowTypes[k] \in proc[r1].rlMissed
             /\ Returned(proc[r2]) /\ WindowTypes[k] \in proc[r2].rlMissed
             /\ Abs(proc[r1].rlNow - proc[r2].rlNow) < Window(limits, k).duration
             /\ \A r \in Procs : proc[r].kind = "call" => Returned(proc[r])) =>
                /\ Cardinality(created) = 1
                /\ \A row \in created :
                        row.requestCount =
                            Cardinality({r \in CallsInWindow(row, k) : PassedKind(proc[r], k)})

\* Overlapping calls while the clock advances
MaxRaceCalls == 2   \* overlapping calls per behaviour while the clock advances

NextRace ==
    \/ /\ started < MaxRaceCalls
       /\ CallCheckRateLimit("user_sample_001", ApiKeyNames[1])
    \/ \E r \in Procs : RLSelect(r)
    \/ \E r \in Procs : RLWrite(r)
    \/ Tick

\* As InitRL, with every limit at MaxLimit
InitRace ==
    /\ InitRL
    /\ limits.maxRequestsPerMinute = MaxLimit
    /\ limits.maxRequestsPerHour = MaxLimit
    /\ limits.maxRequestsPerDay = MaxLimit

SpecRace == InitRace /\ [][NextRace]_vars

\* A row is active when now minus its window_start is less than the duration
\* of its kind
ActiveRows(userId, apiKey, k) ==
    {row \in WindowRows(k) : /\ row.userId = userId
                             /\ row.apiKey = apiKey
                             /\ now - row.windowStart < Window(limits, k).duration}

\* C13: in every reachable state, for each (user, apiKey, window kind) at
\* most one rate-limit row is active.
C13_OneActiveWindow ==
    \A userId \in Users : \A i \in 1..Len(ApiKeyNames) : \A k \in Kinds :
        Cardinality(ActiveRows(userId, ApiKeyNames[i], k)) <= 1

\* C14: a call that checkRateLimit denies creates no window row and
\* increments no window count of any kind: when the latest call has returned
\* denied, table rate_limits is as it was when that call began.
C14_DenialWritesNothing ==
    \A r \in Procs :
        (Returned(proc[r]) /\ proc[r].rlResult = "denied" /\ proc[r].no = started) =>
            rate_limits = proc[r].rlBefore

-----------------------------------------------------------------------------
(* A legacy credential: created before encrypted secrets, it has an         *)
(* api_secret_hash and no encrypted_secret.  It is stored next to a         *)
(* credential of the current kind, and requests for both are verified.      *)

\* The creation body of a caller that brings its own key and secret hash
LegacyBody ==
    [CreateBody({"name", "apiKey", "apiSecretHash"}, {}, 0, FALSE)
        EXCEPT !.apiKey = ApiKeyNames[1], !.apiSecretHash = "sha256(whs_1)"]

InitLegacy ==
    /\ now = StartTime
    /\ ticks = 0
    /\ \E s \in 1..Len(SecretNames), iv \in IVs :
        webhooks = (1 :> CreateConfig(1, "user_sample_001", LegacyBody, 1, 1, 1))
                   @@ (2 :> CreateConfig(2, "user_sample_001", CreateBody({"name"}, {}, 0, FALSE),
                                         2, s, iv))
    /\ rate_limits = {}
    /\ webhook_logs = <<>>
    /\ limits \in {c \in LimitConfigs : c.maxRequestsPerMinute = MaxLimit
                                        /\ c.maxRequestsPerHour = MaxLimit
                                        /\ c.maxRequestsPerDay = MaxLimit}
    /\ proc = [r \in Procs |-> IdleProc]
    /\ started = 0
    /\ responses = <<>>

SpecLegacy == InitLegacy /\ [][NextSig]_vars

\* The request names a stored credential that has no encryptedSecret
ForLegacy(p) ==
    LET credential == getWebhookByApiKey(webhooks, p.payload.apiKey.s)
    IN  credential # NoConfig /\ credential.encryptedSecret = NullText

\* The request names a credential with an encryptedSecret and was rejected by
\* signature verification
BadSignature(p) ==
    LET credential == getWebhookByApiKey(webhooks, p.payload.apiKey.s)
    IN  /\ credential # NoConfig /\ credential.encryptedSecret # NullText
        /\ Verified(p) /\ ~InTrace(p, "signature")

\* C20: a credential that has no encryptedSecret fails authentication on
\* every request and never reaches the executor, and the denial carries a
\* reason that is distinct from the reason of an invalid signature.
C20_LegacyDistinctReason ==
    \A r \in Procs :
        (ForLegacy(proc[r]) /\ Verified(proc[r])) =>
            /\ proc[r].status = 401
            /\ ~InTrace(proc[r], "signature")
            /\ \A q \in Procs : BadSignature(proc[q]) => proc[r].error # proc[q].error

-----------------------------------------------------------------------------
(* Further claims about the dashboard API and the stored credentials *)

\* The requests that complete a successful execution for credential w in
\* this step
SucceedsFor(w) ==
    {r \in Procs : /\ proc[r].pc = "log_success"
                    /\ proc'[r].pc = "done"
                    /\ proc'[r].status = 200
                    /\ proc[r].cfg.id = w}

\* C21: a credential's executionCount never decreases and increases by
\* exactly one for each request that executes successfully; no other
\* operation (a failed or denied request, a PATCH update) changes it.
C21_CountFollowsSuccess ==
    [][\A w \in DOMAIN webhooks :
            w \in DOMAIN webhooks' =>
                webhooks'[w].executionCount =
                    webhooks[w].executionCount + Cardinality(SucceedsFor(w))]_vars

\* This step is the handling of one PATCH request
PatchStep ==
    /\ Len(responses') = Len(responses) + 1
    /\ responses'[Len(responses')].op = "PATCH"

\* C22: a PATCH update of a webhook, whatever fields its body contains,
\* leaves the apiKey, the stored secret (encryptedSecret and apiSecretHash),
\* the id and the owning userId of every stored webhook unchanged.
C22_PatchKeepsIdentity ==
    [][PatchStep =>
        /\ DOMAIN webhooks' = DOMAIN webhooks
        /\ \A w \in DOMAIN webhooks :
            /\ webhooks'[w].apiKey = webhooks[w].apiKey
            /\ webhooks'[w].encryptedSecret = webhooks[w].encryptedSecret
            /\ webhooks'[w].apiSecretHash = webhooks[w].apiSecretHash
            /\ webhooks'[w].id = webhooks[w].id
            /\ webhooks'[w].userId = webhooks[w].userId]_vars

\* Witness of C22: a PATCH whose body carried every field of a webhook,
\* the identity and secret fields included, was applied to a stored webhook
C22_Witness ==
    \E i \in 1..Len(responses) :
        /\ responses[i].op = "PATCH"
        /\ responses[i].status = 200
        /\ \E w \in responses[i].webhooks :
            /\ ~w.enabled
            /\ w.maxOrderSize = 50
            /\ w.executionCount = 7
            /\ w.apiKey \in {ApiKeyNames[k] : k \in 1..Len(ApiKeyNames)}

\* The creation responses that handed out a secret
Issued == {i \in 1..Len(responses) : responses[i].op = "POST" /\ responses[i].apiSecret # ""}

\* The request of p is for the credential with this key and is signed with
\* this secret
SignedWith(p, apiKey, secret) ==
    /\ Verified(p)
    /\ p.payload.apiKey = Str(apiKey)
    /\ p.payload.signature = HmacHex(secret, SignatureMessage(p.payload))

\* C23: for every credential created through the creation endpoint, the
\* stored encryptedSecret decrypts under the master key to exactly the
\* apiSecret returned in that creation response, so a request signed with
\* the returned secret authenticates.
C23_StoredSecretDecrypts ==
    \A i \in Issued : \A c \in responses[i].webhooks : \A w \in DOMAIN webhooks :
        webhooks[w].apiKey = c.apiKey =>
            /\ decryptApiSecret(webhooks[w].encryptedSecret, MasterKey) =
                    [ok |-> TRUE, plain |-> responses[i].apiSecret]
            /\ \A r \in Procs :
                    SignedWith(proc[r], c.apiKey, responses[i].apiSecret) =>
                        InTrace(proc[r], "signature")

\* Witness of C23: a request signed with the secret of a creation response
\* was verified against the stored credential and accepted
C23_Witness ==
    \E i \in Issued : \E c \in responses[i].webhooks : \E r \in Procs :
        /\ SignedWith(proc[r], c.apiKey, responses[i].apiSecret)
        /\ InTrace(proc[r], "signature")
        /\ \E w \in DOMAIN webhooks :
            /\ webhooks[w].apiKey = c.apiKey
            /\ Len(webhooks[w].encryptedSecret.parts) = 3

-----------------------------------------------------------------------------
(* The secret cipher on its own: decryption of stored and of altered texts *)

MaxReveals == 1

\* The values WEBHOOK_ENCRYPTION_KEY can have: the master key and another key
EncryptionKeys == {MasterKey, MasterKey + 1}

\* A value that is the authentication tag of nothing
NoTag == 0

\* Every text encryptApiSecret can return under the master key
Genuine ==
    {encryptApiSecret(SecretNames[s], MasterKey, iv) : s \in 1..Len(SecretNames), iv \in IVs}

\* The texts someone without the master key can put in place of a stored
\* text: any IV, any data, and as tag a tag they have seen, the first bytes
\* of one, or a value that is no tag; texts with fewer parts, and text that
\* is no "iv:data:tag" at all
Altered(stored) ==
    ({EncText(iv, data, tag) :
            iv \in IVs \cup {0}, data \in 0..(CipherModulus - 1),
            tag \in {g.parts[3] : g \in Genuine}
                    \cup {TagPrefix(g.parts[3]) : g \in Genuine} \cup {NoTag}}
        \cup {[parts |-> <<stored.parts[1], stored.parts[2]>>, raw |-> ""],
              RawText("whs_1"), NullText})
    \ Genuine

\* decryptApiSecret(text) in a process whose WEBHOOK_ENCRYPTION_KEY is key
Reveal(text, key) ==
    /\ Len(responses) < MaxReveals
    /\ responses' = Append(responses,
            [op |-> "decrypt", text |-> text, key |-> key,
             result |-> decryptApiSecret(text, key)])
    /\ UNCHANGED <<now, ticks, webhooks, rate_limits, webhook_logs, limits, proc, started>>

InitCipher ==
    /\ now = StartTime
    /\ ticks = 0
    /\ \E k \in 1..Len(ApiKeyNames), s \in 1..Len(SecretNames), iv \in IVs :
        webhooks = (1 :> CreateConfig(1, "user_sample_001", CreateBody({"name"}, {}, 0, FALSE),
                                      k, s, iv))
    /\ rate_limits = {}
    /\ webhook_logs = <<>>
    /\ limits \in {c \in LimitConfigs : c.maxRequestsPerMinute = MaxLimit
                                        /\ c.maxRequestsPerHour = MaxLimit
                                        /\ c.maxRequestsPerDay = MaxLimit}
    /\ proc = [r \in Procs |-> IdleProc]
    /\ started = 0
    /\ responses = <<>>

NextCipher ==
    \E text \in {webhooks[1].encryptedSecret} \cup Altered(webhooks[1].encryptedSecret),
       key \in EncryptionKeys :
        Reveal(text, key)

SpecCipher == InitCipher /\ [][NextCipher]_vars

\* C24: decrypting a stored secret whose IV, ciphertext or authentication
\* tag has been altered, or decrypting under a different master key, fails
\* with an error and never returns a plaintext.
C24_AlteredTextFails ==
    \A i \in 1..Len(responses) :
        (responses[i].text # webhooks[1].encryptedSecret \/ responses[i].key # MasterKey)
            => responses[i].result = [ok |-> FALSE, plain |-> ""]

-----------------------------------------------------------------------------
(* The canonical signing message on its own: payloads built in any order *)

MaxMessages == 2

DeclaredOrder ==
    <<"action", "symbol", "quantity", "price", "stopLoss", "apiKey", "signature",
      "timestamp">>

Rotate(seq, n) == [i \in 1..Len(seq) |-> seq[((i + n - 1) % Len(seq)) + 1]]

Reverse(seq) == [i \in 1..Len(seq) |-> seq[Len(seq) + 1 - i]]

\* Orders in which a sender can have put the fields into the JSON object
InsertionOrders ==
    {Rotate(DeclaredOrder, n) : n \in 0..(Len(DeclaredOrder) - 1)}
    \cup {Reverse(Rotate(DeclaredOrder, n)) : n \in 0..(Len(DeclaredOrder) - 1)}

\* Object.keys of the payload whose fields were inserted in this order
ObjectKeys(payload, order) == SelectSeq(order, LAMBDA key : payload[key].t # "undef")

\* The message of createSignatureMessage and of verifyHmacSignature for the
\* payload without its signature field
createSignatureMessage(payload, order) ==
    JoinFields(payload,
               SortKeys(SelectSeq(ObjectKeys(payload, order), LAMBDA key : key # "signature")))

\* The payloads whose message is built: every order of Orders under either
\* key, signed
CanonPayloads(t) ==
    {Sign(Unsigned(o, Str(ApiKeyNames[k]), Num(t \div 1000)), SecretNames[1]) :
        o \in Orders, k \in 1..Len(ApiKeyNames)}

\* The message is built for the payload at hand, parsed with its fields in
\* this order
Canonicalize(order) ==
    /\ Len(responses) < MaxMessages
    /\ responses' = Append(responses,
            [op |-> "message", keys |-> ObjectKeys(proc[1].payload, order),
             message |-> createSignatureMessage(proc[1].payload, order)])
    /\ UNCHANGED <<now, ticks, webhooks, rate_limits, webhook_logs, limits, proc, started>>

InitCanon ==
    /\ now = StartTime
    /\ ticks = 0
    /\ webhooks = [w \in {} |-> NoConfig]
    /\ rate_limits = {}
    /\ webhook_logs = <<>>
    /\ limits \in {c \in LimitConfigs : c.maxRequestsPerMinute = MaxLimit
                                        /\ c.maxRequestsPerHour = MaxLimit
                                        /\ c.maxRequestsPerDay = MaxLimit}
    /\ \E payload \in CanonPayloads(now) :
        proc = [r \in Procs |-> IF r = 1 THEN [IdleProc EXCEPT !.payload = payload]
                                ELSE IdleProc]
    /\ started = 0
    /\ responses = <<>>

NextCanon == \E order \in InsertionOrders : Canonicalize(order)

SpecCanon == InitCanon /\ [][NextCanon]_vars

\* The fields of a payload that are signed
SignedFields(payload) ==
    {key \in DOMAIN payload : payload[key].t # "undef"} \ {"signature"}

\* msg lists the signed fields of the payload in ascending key order, each
\* rendered key=value, joined by &
Canonical(msg, payload) ==
    LET n == Cardinality(SignedFields(payload))
    IN  /\ Len(msg) = 4 * n - 1
        /\ {msg[4 * i - 3] : i \in 1..n} = SignedFields(payload)
        /\ \A i \in 1..n :
            /\ msg[4 * i - 2] = "="
            /\ msg[4 * i - 1] = Render(payload[msg[4 * i - 3]])
            /\ i < n => /\ msg[4 * i] = "&"
                        /\ KeyRank(msg[4 * i - 3]) < KeyRank(msg[4 * i + 1])

\* C25: the canonical signing message depends only on the set of (key,
\* value) fields of the payload other than signature: the same fields
\* inserted in different orders give the same message, with the fields in
\* ascending key order rendered key=value and joined by &.
C25_MessageIgnoresOrder ==
    \A i \in 1..Len(responses) :
        /\ Canonical(responses[i].message, proc[1].payload)
        /\ responses[i].message = SignatureMessage(proc[1].payload)
        /\ \A j \in 1..Len(responses) : responses[j].message = responses[i].message

\* Witness of C25: the message was built for the same payload with its
\* fields inserted in two different orders
C25_Witness ==
    \E i, j \in 1..Len(responses) :
        /\ responses[i].keys # responses[j].keys
        /\ Head(responses[i].keys) # "action"
        /\ Head(responses[j].keys) # "action"
        /\ responses[i].message = responses[j].message

-----------------------------------------------------------------------------
(* Further claims about signature verification and credential lookup *)

\* The signature is no string, or has not the length of a hex digest, or is
\* text of that length that is no digest
Malformed(signature) ==
    \/ signature.t # "str"
    \/ signature.len # DigestHexLen
    \/ signature.secret = ""

\* C26: signature verification returns false, and raises no error, when the
\* provided signature has a different length from the expected HMAC or is
\* otherwise malformed: the request is answered 401 as for any wrong
\* signature, not 500 as for an error.
C26_MalformedIsFalse ==
    \A r \in Procs :
        LET p == proc[r]
        IN  (Verified(p) /\ Malformed(p.payload.signature)) =>
                /\ ~verifyWebhookSignature(webhooks, p.payload)
                /\ ~InTrace(p, "signature")
                /\ p.pc = "done"
                /\ p.status = 401
                /\ p.error = "Invalid signature or API key"

\* Witness of C26: a signature shorter than a digest was verified against a
\* stored credential, the comparison of the two buffers threw, and the
\* request was answered 401
C26_Witness ==
    \E r \in Procs :
        LET p == proc[r]
            webhookConfig == getWebhookByApiKey(webhooks, p.payload.apiKey.s)
        IN  /\ Verified(p)
            /\ p.payload.signature = Truncated
            /\ webhookConfig # NoConfig
            /\ verifyHmacSignature(p.payload, p.payload.signature,
                    decryptApiSecret(webhookConfig.encryptedSecret, MasterKey).plain).threw
            /\ p.status = 401

\* No stored credential has the apiKey of the request
UnknownKey(p) == \A w \in DOMAIN webhooks : webhooks[w].apiKey # p.payload.apiKey.s

-----------------------------------------------------------------------------
(* Two credentials of one user, their requests handled concurrently *)

MaxPairRequests == 2

\* A fresh, complete market order (no price) under each key, signed with
\* that credential's secret
PairPayloads(t) ==
    {Sign(Unsigned([BaseOrder EXCEPT !.price = Undef], Str(ApiKeyNames[k]), Num(t \div 1000)),
          SecretNames[k]) : k \in 1..Len(ApiKeyNames)}

InitPair ==
    /\ now = StartTime
    /\ ticks = 0
    /\ webhooks = (1 :> CreateConfig(1, "user_sample_001", CreateBody({"name"}, {}, 0, FALSE),
                                     1, 1, 1))
                  @@ (2 :> CreateConfig(2, "user_sample_001", CreateBody({"name"}, {}, 0, FALSE),
                                        2, 2, 2))
    /\ rate_limits = {}
    /\ webhook_logs = <<>>
    /\ limits \in {c \in LimitConfigs : c.maxRequestsPerMinute = MaxLimit
                                        /\ c.maxRequestsPerHour = MaxLimit
                                        /\ c.maxRequestsPerDay = MaxLimit}
    /\ proc = [r \in Procs |-> IdleProc]
    /\ started = 0
    /\ responses = <<>>

\* The key of the credential a request or call is for
KeyOf(p) == IF p.kind = "call" THEN p.rlKey ELSE p.payload.apiKey.s

\* The requests of one credential arrive one after the other, those of
\* different credentials in any interleaving
NextPair ==
    \/ /\ started < MaxPairRequests
       /\ \E payload \in PairPayloads(now) :
            /\ \A q \in Procs : proc[q].pc \in {"idle", "done"}
                                    \/ KeyOf(proc[q]) # payload.apiKey.s
            /\ Receive(started + 1, payload)
    \/ \E r \in Procs : Verify(r)
    \/ \E r \in Procs : Lookup(r)
    \/ \E r \in Procs : RLSelect(r)
    \/ \E r \in Procs : RLWrite(r)
    \/ \E r \in Procs : Policy(r)
    \/ \E r \in Procs : Execute(r)
    \/ \E r \in Procs : LogSuccess(r)
    \/ \E r \in Procs : Catch(r)
    \/ \E r \in Procs : Finish(r)

SpecPair == InitPair /\ [][NextPair]_vars

\* The keys of the requests and calls that take this step
ActingKeys ==
    UNION {{KeyOf(proc[r]), KeyOf(proc'[r])} : r \in {q \in Procs : proc'[q] # proc[q]}}

RowsOf(rows, apiKey) == {row \in rows : row.apiKey = apiKey}

RecordsOf(logs, webhookId) == SelectSeq(logs, LAMBDA l : l.webhookId = webhookId)

\* C28: a webhook request or checkRateLimit call for one credential never
\* creates or changes a rate-window row, an execution record or a credential
\* field that belongs to a different credential, under any interleaving of
\* requests.
C28_OtherCredentialUntouched ==
    [][\A w \in DOMAIN webhooks :
            webhooks[w].apiKey \notin ActingKeys =>
                /\ w \in DOMAIN webhooks'
                /\ webhooks'[w] = webhooks[w]
                /\ RowsOf(rate_limits', webhooks[w].apiKey) = RowsOf(rate_limits, webhooks[w].apiKey)
                /\ RecordsOf(webhook_logs', w) = RecordsOf(webhook_logs, w)]_vars

\* Witness of C28: a request for one credential has been executed and logged
\* while the other credential has rate-window rows and an execution record
\* of its own
C28_Witness ==
    \E r \in Requests :
        /\ proc[r].pc = "done"
        /\ proc[r].status = 200
        /\ proc[r].cfg.id = 1
        /\ RecordsOf(webhook_logs, 1) # <<>>
        /\ RecordsOf(webhook_logs, 2) # <<>>
        /\ RowsOf(rate_limits, ApiKeyNames[1]) # {}
        /\ RowsOf(rate_limits, ApiKeyNames[2]) # {}
        /\ webhooks[2].executionCount > 0

-----------------------------------------------------------------------------
(* Further claims about the stored credentials *)

\* Some stored credential has this apiKey
KeyInUse(apiKey) == \E w \in DOMAIN webhooks : webhooks[w].apiKey = apiKey

\* C29: in every reachable state no two stored credentials have the same
\* apiKey; a creation call that supplies an apiKey already in use fails with
\* status 409 and leaves the stored credentials unchanged.
C29_DuplicateKeyIs409 ==
    [][/\ \A v, w \in DOMAIN webhooks' :
            webhooks'[v].apiKey = webhooks'[w].apiKey => v = w
       /\ \A body \in AdminCreateBodies, k \in 1..Len(ApiKeyNames),
             s \in 1..Len(SecretNames), iv \in IVs :
            (/\ {"name", "apiKey"} \subseteq body.has
             /\ KeyInUse(body.apiKey)
             /\ Create("user_sample_001", body, k, s, iv)) =>
                /\ responses'[Len(responses')].status = 409
                /\ webhooks' = webhooks]_vars

\* The credential a lookup by the hash of the presented apiKey returns
ResolveByHash(apiKey) ==
    LET hits == {w \in DOMAIN webhooks :
                    ApiKeyHashColumn(webhooks[w]) = hashApiKey(apiKey)}
    IN  IF Cardinality(hits) = 1 THEN webhooks[CHOOSE w \in hits : TRUE] ELSE NoConfig

\* C30: credential resolution looks the credential up by the one-way hash of
\* the presented apiKey, and every stored credential carries the lookup hash
\* of its own apiKey, so resolving an apiKey returns the credential whose
\* lookup hash equals the hash of the apiKey, or not-found.
C30_ResolveByHash ==
    /\ \A w \in DOMAIN webhooks :
            ApiKeyHashColumn(webhooks[w]) = hashApiKey(webhooks[w].apiKey)
    /\ \A k \in 1..Len(ApiKeyNames) :
            getWebhookByApiKey(webhooks, ApiKeyNames[k]) = ResolveByHash(ApiKeyNames[k])

-----------------------------------------------------------------------------
(* Further claims about the rate limiter and the order of the stages *)

\* C31: if the storage read of a rate window inside checkRateLimit returns
\* an ambiguous result (more than one matching row), or if a storage write
\* fails, the call returns denied rather than allowed.
C31_FaultDenies ==
    \A r \in Procs :
        (Returned(proc[r]) /\ proc[r].rlFaults # {}) => proc[r].rlResult = "denied"

\* One credential, its requests handled concurrently
BurstPayloads(t) ==
    {Sign(Unsigned([BaseOrder EXCEPT !.price = Undef, !.stopLoss = sl],
                   Str(ApiKeyNames[1]), Num(t \div 1000)), SecretNames[1]) :
        sl \in {Undef, Num(58000)}}

InitBurst ==
    /\ now = StartTime
    /\ ticks = 0
    /\ webhooks = (1 :> CreateConfig(1, "user_sample_001",
                                     CreateBody({"name", "requireStopLoss"}, {}, 0, TRUE),
                                     1, 1, 1))
    /\ rate_limits = {}
    /\ webhook_logs = <<>>
    /\ limits \in {c \in LimitConfigs : c.maxRequestsPerMinute = MaxLimit
                                        /\ c.maxRequestsPerHour = MaxLimit
                                        /\ c.maxRequestsPerDay = MaxLimit}
    /\ proc = [r \in Procs |-> IdleProc]
    /\ started = 0
    /\ responses = <<>>

NextBurst ==
    \/ /\ started < MaxRequests
       /\ \E payload \in BurstPayloads(now) : Receive(started + 1, payload)
    \/ \E r \in Procs : Verify(r)
    \/ \E r \in Procs : Lookup(r)
    \/ \E r \in Procs : RLSelect(r)
    \/ \E r \in Procs : RLWrite(r)
    \/ \E r \in Procs : Policy(r)
    \/ \E r \in Procs : Execute(r)
    \/ \E r \in Procs : LogSuccess(r)
    \/ \E r \in Procs : Catch(r)

SpecBurst == InitBurst /\ [][NextBurst]_vars

RECURSIVE SumCounts(_)
SumCounts(rows) ==
    IF rows = {} THEN 0
    ELSE LET row == CHOOSE x \in rows : TRUE
         IN  row.requestCount + SumCounts(rows \ {row})

\* The count of all windows of a kind of the credential with this key
Charged(rows, apiKey, k) ==
    SumCounts({row \in rows : row.apiKey = apiKey /\ row.windowType = WindowTypes[k]})

\* The requests for the key that the rate limiter let pass
Admitted(apiKey) ==
    {r \in Requests : KeyOf(proc[r]) = apiKey /\ InTrace(proc[r], "rate")}

\* C32: every request that reaches the executor has been counted in a
\* minute, an hour and a day window of its credential, and those increments
\* stay in place when the request is later denied by a policy check or fails
\* in the executor: the windows of each kind hold at least one count per
\* request that was let pass, and no count ever goes down.
C32_ExecutedIsCharged ==
    [][\A k \in Kinds :
        /\ Charged(rate_limits', ApiKeyNames[1], k) >= Cardinality(Admitted(ApiKeyNames[1])')
        /\ \A row \in rate_limits : \E next \in rate_limits' :
                /\ next.userId = row.userId /\ next.apiKey = row.apiKey
                /\ next.windowType = row.windowType /\ next.windowStart = row.windowStart
                /\ next.requestCount >= row.requestCount]_vars

\* The position of a window type in the order checkRateLimit tests them (0
\* for none)
KindOf(type) == IF \E k \in Kinds : WindowTypes[k] = type
                THEN CHOOSE k \in Kinds : WindowTypes[k] = type ELSE 0

\* The rows of kind k that the call of p found in the table on entry
RowsBefore(p, k) ==
    {row \in p.rlBefore : /\ row.userId = p.rlUser
                          /\ row.apiKey = p.rlKey
                          /\ row.windowType = WindowTypes[k]}

\* Every window of kind k had expired when the call of p began
AllExpired(p, k) ==
    /\ RowsBefore(p, k) # {}
    /\ \A row \in RowsBefore(p, k) : p.rlNow - row.windowStart >= Window(limits, k).duration

\* C33: after the window of a kind has expired (now minus window_start is at
\* least the kind's duration), the next checkRateLimit call for that
\* credential does not use the expired row's count: it creates a new window
\* with count 1 and is not denied by that kind, even if the expired row had
\* reached the limit.
C33_ExpiredWindowIgnored ==
    \A r \in Procs : \A k \in Kinds :
        LET p == proc[r]
        IN  (/\ Returned(p)
             /\ AllExpired(p, k)
             /\ p.rlDeniedBy = "" \/ KindOf(p.rlDeniedBy) >= k) =>
                /\ p.rlDeniedBy # WindowTypes[k]
                /\ \E row \in rate_limits :
                        /\ row.userId = p.rlUser /\ row.apiKey = p.rlKey
                        /\ row.windowType = WindowTypes[k]
                        /\ row.windowStart = p.rlNow

-----------------------------------------------------------------------------
(* The maintenance sweep: checkRateLimit calls, one at a time, with
   cleanupExpiredRateLimits run between them at any time *)

\* checkRateLimit run to its end on a table: the loop over the windows from
\* the i-th on, with the table it leaves and the value it returns
RECURSIVE checkRateLimit(_, _, _, _, _, _)
checkRateLimit(rows, userId, apiKey, config, t, i) ==
    IF i > Len(WindowTypes) THEN [rows |-> rows, allowed |-> TRUE]
    ELSE LET w == Window(config, i)
             existing == SelectSingle(rows, userId, apiKey, w.type, t - w.duration)
         IN  IF existing # -1
             THEN IF LimitExceeded(existing, w.limit)
                  THEN [rows |-> rows, allowed |-> FALSE]
                  ELSE checkRateLimit(
                            UpdateCount(rows, userId, apiKey, w.type, t - w.duration, existing),
                            userId, apiKey, config, t, i + 1)
             ELSE checkRateLimit(InsertWindow(rows, userId, apiKey, w.type, t),
                                 userId, apiKey, config, t, i + 1)

\* A variant of the sweep that removes what is older than one hour
cleanupExpiredRateLimits_OneHour(rows, t) ==
    {row \in rows : ~(row.windowStart < t - HourDurationMs)}

\* .delete().lt("window_start", oneDayAgo)
cleanupExpiredRateLimits(rows, t) ==
    {row \in rows : ~(row.windowStart < t - DayDurationMs)}

\* Table rate_limits as it would be had the sweep never run (history)
Unswept == IF responses = <<>> THEN {} ELSE responses[Len(responses)].unsweptRows

\* One call, from entry to return; the same call is made on the unswept table
SweepCall(userId, apiKey) ==
    LET swept == checkRateLimit(rate_limits, userId, apiKey, limits, now, 1)
        unswept == checkRateLimit(Unswept, userId, apiKey, limits, now, 1)
    IN  /\ started < MaxCalls
        /\ started' = started + 1
        /\ rate_limits' = swept.rows
        /\ responses' = Append(responses,
                [op |-> "checkRateLimit", allowed |-> swept.allowed,
                 unswept |-> unswept.allowed, unsweptRows |-> unswept.rows,
                 removed |-> Unswept \ rate_limits])
        /\ UNCHANGED <<now, ticks, webhooks, webhook_logs, limits, proc>>

Cleanup ==
    /\ rate_limits' = cleanupExpiredRateLimits(rate_limits, now)
    /\ UNCHANGED <<now, ticks, webhooks, webhook_logs, limits, proc, started, responses>>

NextSweep ==
    \/ SweepCall("user_sample_001", ApiKeyNames[1])
    \/ Cleanup
    \/ Tick

SpecSweep == InitRL /\ [][NextSweep]_vars

\* C34: cleanupExpiredRateLimits removes only rows that are inactive for
\* every window kind, so running it at any point between checkRateLimit
\* calls, or never running it, does not change the result of any
\* checkRateLimit call.
C34_SweepChangesNoResult ==
    /\ \A row \in Unswept \ rate_limits : \A k \in Kinds :
            now - row.windowStart > Window(limits, k).duration
    /\ \A i \in 1..Len(responses) : responses[i].allowed = responses[i].unswept

\* Witness of C34: a call made after the sweep had removed rows was denied
C34_Witness ==
    \E i \in 1..Len(responses) :
        /\ responses[i].removed # {}
        /\ ~responses[i].allowed

-----------------------------------------------------------------------------
(* A healthy credential and one whose stored secret does not decrypt *)

\* Stored texts that do not decrypt under the master key: the encryption of
\* a secret with other data, another IV or a tag that is none, the encryption
\* under another key, text with two parts, text that is no "iv:data:tag"
BrokenTexts ==
    LET g == encryptApiSecret(SecretNames[2], MasterKey, 2)
    IN  {EncText(g.parts[1], (g.parts[2] + 1) % CipherModulus, g.parts[3]),
         EncText(1, g.parts[2], g.parts[3]),
         EncText(g.parts[1], g.parts[2], NoTag),
         encryptApiSecret(SecretNames[2], MasterKey + 1, 2),
         [parts |-> <<g.parts[1], g.parts[2]>>, raw |-> ""],
         RawText("whs_2")}

\* Credential 1 is created with generated credentials; credential 2 with an
\* apiKey and an encryptedSecret taken from the body
InitBroken ==
    /\ now = StartTime
    /\ ticks = 0
    /\ \E text \in BrokenTexts :
        webhooks = (1 :> CreateConfig(1, "user_sample_001", CreateBody({"name"}, {}, 0, FALSE),
                                      1, 1, 1))
                   @@ (2 :> CreateConfig(2, "user_sample_001",
                                [CreateBody({"name", "apiKey", "encryptedSecret"}, {}, 0, FALSE)
                                    EXCEPT !.apiKey = ApiKeyNames[2],
                                           !.encryptedSecret = text],
                                2, 2, 2))
    /\ rate_limits = {}
    /\ webhook_logs = <<>>
    /\ limits \in {c \in LimitConfigs : c.maxRequestsPerMinute = MaxLimit
                                        /\ c.maxRequestsPerHour = MaxLimit
                                        /\ c.maxRequestsPerDay = MaxLimit}
    /\ proc = [r \in Procs |-> IdleProc]
    /\ started = 0
    /\ responses = <<>>

SpecBroken == InitBroken /\ [][NextSig]_vars

\* The request was verified against a stored credential whose secret does
\* not decrypt
ForBroken(p) ==
    LET credential == getWebhookByApiKey(webhooks, p.payload.apiKey.s)
    IN  /\ Verified(p)
        /\ credential # NoConfig
        /\ credential.encryptedSecret # NullText
        /\ ~decryptApiSecret(credential.encryptedSecret, MasterKey).ok

\* The request was verified against a stored credential whose secret
\* decrypts, and its signature is not the HMAC under that secret
WrongSignature(p) ==
    LET credential == getWebhookByApiKey(webhooks, p.payload.apiKey.s)
        secret == decryptApiSecret(credential.encryptedSecret, MasterKey)
    IN  /\ Verified(p)
        /\ credential # NoConfig
        /\ secret.ok
        /\ p.payload.signature # HmacHex(secret.plain, SignatureMessage(p.payload))

\* C35: a request for a credential whose stored secret fails to decrypt
\* (tampered ciphertext, wrong master key, malformed format) receives the
\* same response, status and body, as a request with a wrong signature for a
\* healthy credential.
C35_BrokenLooksLikeWrongSignature ==
    \A r, q \in Procs :
        (ForBroken(proc[r]) /\ WrongSignature(proc[q])) =>
            /\ proc[r].pc = "done" /\ proc[q].pc = "done"
            /\ proc[r].status = proc[q].status
            /\ proc[r].error = proc[q].error

\* Witness of C35: a request for the credential whose secret is encrypted
\* under another key, signed with that secret, and a request with a wrong
\* signature for the healthy credential have both been answered
C35_Witness ==
    \E r, q \in Procs :
        /\ ForBroken(proc[r]) /\ WrongSignature(proc[q])
        /\ webhooks[2].encryptedSecret = encryptApiSecret(SecretNames[2], MasterKey + 1, 2)
        /\ proc[r].payload.signature =
                HmacHex(SecretNames[2], SignatureMessage(proc[r].payload))
        /\ proc[r].status = 401 /\ proc[q].status = 401

-----------------------------------------------------------------------------
(* Signature verification of payloads whose values hold & and = *)

\* A signed order, and the same signature on a payload in which the
\* stopLoss field is gone and the quantity is text that holds its characters
SplicedPayloads(t) ==
    LET signed == {Sign(Unsigned(BaseOrder, Str(ApiKeyNames[k]), Num(t \div 1000)),
                        SecretNames[s]) :
                        k \in 1..Len(ApiKeyNames), s \in 1..Len(SecretNames)}
    IN  signed \cup {[p EXCEPT !.quantity = Str("1&stopLoss=58000"), !.stopLoss = Undef] :
                        p \in signed}

NextSplice ==
    \/ /\ started < MaxRequests
       /\ \A q \in Procs : proc[q].pc # "verify"
       /\ \E payload \in SigPayloads(now) \cup SplicedPayloads(now) :
            Receive(started + 1, payload)
    \/ \E r \in Procs : Verify(r)

SpecSplice == InitSig /\ [][NextSplice]_vars

\* The (key, value) fields of a payload other than signature
FieldSet(payload) == {<<key, payload[key]>> : key \in SignedFields(payload)}

\* C36: two payloads whose sets of (key, value) fields other than signature
\* differ never yield the same canonical message, including when values
\* contain the characters & or =, so a signature valid for one payload does
\* not verify for a different payload under the same secret.
C36_MessageIsInjective ==
    \A r, q \in Procs :
        LET a == proc[r].payload
            b == proc[q].payload
        IN  (/\ Verified(proc[r]) /\ Verified(proc[q])
             /\ FieldSet(a) # FieldSet(b)) =>
                /\ SignatureMessage(a) # SignatureMessage(b)
                /\ (a.apiKey = b.apiKey /\ a.signature = b.signature) =>
                        ~(InTrace(proc[r], "signature") /\ InTrace(proc[q], "signature"))

-----------------------------------------------------------------------------
(* What the denied requests leave behind in the rate-limit table *)

\* The stored credentials the request names
CredentialsOf(p) == {w \in DOMAIN webhooks : webhooks[w].apiKey = p.payload.apiKey.s}

\* The request carries the HMAC of its message under the secret that was
\* issued for the credential of SpecReplay
ProperlySigned(p) ==
    p.payload.signature = HmacHex(SecretNames[1], SignatureMessage(p.payload))

\* The request has been denied for its timestamp, its key, its signature or
\* because the credential is disabled
DeniedEarly(p) ==
    /\ p.kind = "webhook" /\ p.pc = "done"
    /\ p.status = 401 \/ DeniedDisabled(p)

\* C37: a request denied for a stale timestamp, an unknown apiKey, an invalid
\* signature or a disabled credential leaves every rate-window row unchanged;
\* only requests that passed those checks are counted by the rate limiter:
\* every step that changes a row is taken by a request that is fresh,
\* properly signed and names a stored, enabled credential, and a request
\* that is denied for one of the four reasons has never entered the limiter.
C37_DeniedIsNotCounted ==
    [][/\ rate_limits' # rate_limits =>
            \E r \in Requests :
                /\ proc'[r] # proc[r]
                /\ ~Stale(proc[r]) /\ ~UnknownKey(proc[r]) /\ ProperlySigned(proc[r])
                /\ \A w \in CredentialsOf(proc[r]) : webhooks[w].enabled
       /\ \A r \in Procs :
            DeniedEarly(proc'[r]) =>
                /\ proc'[r].rlResult = "none" /\ proc'[r].rlIdx = 0
                /\ proc'[r] # proc[r] => rate_limits' = rate_limits]_vars

\* Witness of C37: a request has been denied 401 while the table holds the
\* rows of an earlier, counted request
C37_Witness ==
    \E r \in Procs :
        /\ DeniedEarly(proc[r]) /\ proc[r].status = 401
        /\ Stale(proc[r]) \/ ~ProperlySigned(proc[r]) \/ UnknownKey(proc[r])
        /\ rate_limits # {}

-----------------------------------------------------------------------------
(* The enable switch of the dashboard while requests arrive *)

\* The credential as the dashboard creates it, enabled
InitSwitch ==
    /\ now = StartTime
    /\ ticks = 0
    /\ webhooks = (1 :> CreateConfig(1, "user_sample_001", CreateBody({"name"}, {}, 0, FALSE),
                                     1, 1, 1))
    /\ rate_limits = {}
    /\ webhook_logs = <<>>
    /\ limits \in {c \in LimitConfigs : c.maxRequestsPerMinute = MaxLimit
                                        /\ c.maxRequestsPerHour = MaxLimit
                                        /\ c.maxRequestsPerDay = MaxLimit}
    /\ proc = [r \in Procs |-> IdleProc]
    /\ started = 0
    /\ responses = <<>>

\* onUpdate({ enabled }) of the card's switch: PATCH with the one field
Switch(enabled) == Patch(1, PatchBody({"enabled"}, enabled, 0))

\* Signed market orders arrive one after the other while the switch is turned
\* at any moment of their handling
NextSwitch ==
    \/ /\ started < MaxRequests
       /\ \A q \in Procs : proc[q].pc \in {"idle", "done"}
       /\ \E payload \in BurstPayloads(now) : Receive(started + 1, payload)
    \/ \E r \in Procs : Verify(r)
    \/ \E r \in Procs : Lookup(r)
    \/ \E r \in Procs : RLSelect(r)
    \/ \E r \in Procs : RLWrite(r)
    \/ \E r \in Procs : Policy(r)
    \/ \E r \in Procs : Execute(r)
    \/ \E r \in Procs : LogSuccess(r)
    \/ \E r \in Procs : Catch(r)
    \/ \E enabled \in BOOLEAN : Switch(enabled)

SpecSwitch == InitSwitch /\ [][NextSwitch]_vars

\* The i-th administrative response is that of a completed PATCH which left
\* the credential with the given key enabled, or disabled
PatchedTo(i, apiKey, enabled) ==
    /\ responses[i].op = "PATCH" /\ responses[i].status = 200
    /\ \E w \in responses[i].webhooks : w.apiKey = apiKey /\ w.enabled = enabled

\* The request began after a PATCH had disabled its credential, and no PATCH
\* has enabled it since that one
BeganWhileDisabled(p) ==
    \E i \in 1..p.seen :
        /\ PatchedTo(i, p.payload.apiKey.s, FALSE)
        /\ \A j \in (i + 1)..Len(responses) : ~PatchedTo(j, p.payload.apiKey.s, TRUE)

\* C38: once a PATCH that sets enabled=false has completed for a webhook, no
\* webhook request that begins afterwards with that webhook's apiKey reaches
\* the executor, until a later PATCH sets enabled=true.
C38_DisabledStopsLaterRequests ==
    \A r \in Requests : BeganWhileDisabled(proc[r]) => ~ReachedExecutor(proc[r])

\* Witness of C38: a request that began after the switch was turned off has
\* been answered 403, and an earlier request of the same key was executed
C38_Witness ==
    \E r, q \in Requests :
        /\ BeganWhileDisabled(proc[r]) /\ DeniedDisabled(proc[r])
        /\ proc[q].no < proc[r].no /\ ReachedExecutor(proc[q])

-----------------------------------------------------------------------------
(* The order-size check for a stored maxOrderSize of 0 *)

\* C39: the order-size check is enforced for every stored maxOrderSize value,
\* including 0: an order with quantity*price greater than maxOrderSize that
\* comes to the check is always denied as too large and never reaches the
\* executor.
C39_SizeCheckedForEveryLimit ==
    \A r \in Requests :
        LET p == proc[r]
        IN  (/\ PolicyEvaluated(p) /\ ~ViolatesSymbol(p)
             /\ p.payload.quantity.t = "num" /\ ViolatesSize(p)) =>
                DeniedSize(p) /\ ~ReachedExecutor(p)

====
